---- MODULE Spec2Model ----
(***************************************************************************)
(* A model of the MT5 API client and of the two MT5 API servers (the       *)
(* monolith server/app.py and the layered server/src).                     *)
(*                                                                         *)
(* The module holds several specifications, one per component; each one    *)
(* drives its own group of variables and leaves the other groups at their  *)
(* initial values:                                                         *)
(*   SpecHttp     the client's HttpClient.post / HttpClient.get retry loop *)
(*   SpecAuth     the authentication middleware of both servers            *)
(*   SpecDomain   the domain entities (Ticker, TradeRequest, MarketData)   *)
(*                and the MarketDataResponse DTO                           *)
(*   SpecAnalysis MarketAnalysisUseCase.analyze_symbols                    *)
(*   SpecPct      the percent-change computation of both servers          *)
(*                                                                         *)
(* Python's Optional[T] is modelled as a sequence of length at most one:   *)
(* None is << >> and a present value v is << v >>.                         *)
(***************************************************************************)
EXTENDS Integers, Sequences, FiniteSets, TLC

VARIABLES
    \* ---- client HttpClient (infrastructure/adapters/__init__.py) ----
    max_retries,    \* ApiConfig.max_retries of this client
    session,        \* HttpClient._session: "None" or "open"
    httpPc,         \* position of the running call: idle, attempt, sleep, returned, raised
    verb,           \* "POST" or "GET" ("none" while idle)
    script,         \* what the network does to the 1st, 2nd, ... request of the call
    attempt,        \* the loop variable of `for attempt in range(max_retries)`
    requests,       \* HTTP requests sent by the running call
    sleeps,         \* asyncio.sleep(retry_delay) calls made by the running call
    result,         \* Optional: the number of the request whose decoded body was returned
    raised,         \* the failure raised to the caller ("none" if none)
    \* ---- the servers' authentication (server/app.py, server/src) ----
    apiKeysEnv,     \* Optional: the API_KEYS environment variable of the server process
    API_KEYS,       \* monolith: the module-level list of accepted keys
    valid_keys,     \* layered: SimpleAuthenticationService._valid_keys (Optional set)
    req,            \* the last request received
    resp,           \* the response to it
    \* ---- domain entities and DTOs (client and layered server) ----
    tickerIn,       \* the arguments of the last Ticker(...) construction
    tickerOut,      \* its outcome: the Ticker, or the failure raised
    tradeIn,        \* the TradeRequest last validated
    tradeOut,       \* the outcome of its validate()
    mdIn,           \* the arguments of the last MarketData(...) construction
    mdOut,          \* its outcome, and the MarketDataResponse.from_entity of it
    \* ---- client MarketAnalysisUseCase ----
    pct_changes,    \* Optional: what analysis.get_symbols_percent_change returned
    statistics,     \* Optional: the "statistics" of the analysis returned
    \* ---- percent change of one symbol (both servers) ----
    pctIn,          \* the server, its terminal's state and the candles it returns
    pctOut,         \* the entry appended to the results for the symbol
    \* ---- client health check (HealthRepositoryAdapter, CheckApiHealthUseCase) ----
    healthCall,     \* the call in progress or returned: none, check_health, facade, get_api_info
    healthGet,      \* what the HttpClient.get of the call ended in
    healthAdapter,  \* what the HealthRepositoryAdapter method did: the ApiResponse, or a failure
    healthOut,      \* what CheckApiHealthUseCase.execute did: the ApiHealthResponse, or a failure
    \* ---- client MT5Repository ----
    repoHttp,       \* MT5Repository._http_client: Optional, the HttpClient (by number)
    repoSessions,   \* HttpClient._session of each HttpClient: "None", "open" or "closed"
    repoMade,       \* HttpClient objects created so far
    repoAdapters,   \* the five cached adapters: Optional, the HttpClient each was built on
    repoClosing,    \* Optional: the HttpClient whose close() is awaited by MT5Repository.close
    repoHeld,       \* Optional: the adapter a caller got from a property and kept
    repoLast,       \* the last operation on the repository and what it did
    \* ---- client MarketDataRepositoryAdapter.get_complete_market_data ----
    fetchIn,        \* what the last get_complete_market_data call met (name, lookup, sub-requests)
    fetchOut,       \* its outcome: the MarketData, None, or the failure raised
    \* ---- layered server middleware chain (create_app) ----
    user_middleware,\* app.user_middleware of the layered server, outermost first
    chainReq,       \* the request being served by the layered application
    chainResp,      \* the response that leaves the application
    \* ---- layered server thread pools (MT5ConnectionAdapter, MT5TradingService) ----
    poolPc,         \* where each task stands: idle, <call>_wait, <call>_run, done
    poolExecutor,   \* the executor each task submits its terminal calls to
    poolMade,       \* MT5TradingService objects (and executors) made so far
    \* ---- layered percent-change batch ----
    batchPc,        \* position in execute: idle, loop, returned, raised
    batchSymbols,   \* the names requested
    batchListing,   \* what get_all_symbols gave
    batchFetched,   \* what get_tickers_by_count gave, per name
    batchResults,   \* the entries appended so far
    batchRaised,    \* the exception execute raised, if any
    \* ---- monolith startup and data endpoints ----
    monoPc,         \* the monolith process: down, up, aborted
    MT5_AVAILABLE,  \* whether the MetaTrader5 binding was imported
    mt5_connected,  \* the connection flag
    monoStartup,    \* what the steps of startup did
    monoReq,        \* the data request being answered
    monoAnswer,     \* its answer
    monoShutdowns,  \* the calls of mt5.shutdown made at application shutdown
    \* ---- layered trading use cases ----
    tradingCall,    \* the trading operation under way and what the terminal does with it
    tradingOut,     \* what the use case returned or raised
    tradingStatus,  \* the HTTP status of the close-position endpoint, 0 if none
    tradingOrder,   \* the price of the order sent to the terminal, if one was sent
    \* ---- layered market-data controller ----
    ctlReq,         \* the market-data request being served
    ctlResp,        \* its response
    \* ---- client symbol search ----
    searchPc,       \* idle or returned
    searchReq,      \* the SearchSymbolsRequest
    searchListed,   \* the symbols get_all_symbols gave
    searchOut,      \* the list execute returned
    \* ---- client facade ----
    facRepository,  \* MT5TradingClient._repository, by identity
    facUseCases,    \* the keys of MT5TradingClient._use_cases
    facLive,        \* the repositories opened and not closed
    facMade,        \* the repositories built so far
    facLast,        \* the last operation on the facade and how it ended
    \* ---- layered connection adapter ----
    _is_connected,  \* MT5ConnectionAdapter._is_connected
    connRecentInit, \* what the most recent mt5.initialize did, none if never called
    connShutdownSince,\* whether a shutdown completed since then
    connLast,       \* the last call on the adapter and what it returned
    connTerminal,   \* the terminal: down, initialized or logged_in, and the account
    \* ---- health of both servers ----
    cmpStartup,     \* what the terminal did during startup
    cmpProbe,       \* what the terminal-info probe does afterwards
    cmpHealth,      \* mt5_connection as each server reports it
    \* ---- HttpClient session under concurrent calls ----
    _session,       \* HttpClient._session: None, or the number of a session of `sessions`
    sessions,       \* every ClientSession the client made, in order: "open" or "closed"
    callPc,         \* each post/get call: "idle", "in_flight", "sleeping", "returned", "raised"
    callAttempt,    \* each call's attempt number
    closePc,        \* close(): "idle", "closing" (at its await), "returned"
    calledAfterClose\* a call started after close() returned

httpVars == <<max_retries, session, httpPc, verb, script, attempt, requests, sleeps,
              result, raised>>
authVars == <<apiKeysEnv, API_KEYS, valid_keys, req, resp>>
domainVars == <<tickerIn, tickerOut, tradeIn, tradeOut, mdIn, mdOut>>

analysisVars == <<pct_changes, statistics>>
pctVars == <<pctIn, pctOut>>
healthVars == <<healthCall, healthGet, healthAdapter, healthOut>>
repoVars == <<repoHttp, repoSessions, repoMade, repoAdapters, repoClosing, repoHeld, repoLast>>
fetchVars == <<fetchIn, fetchOut>>
chainVars == <<user_middleware, chainReq, chainResp>>
poolVars == <<poolPc, poolExecutor, poolMade>>
batchVars == <<batchPc, batchSymbols, batchListing, batchFetched, batchResults, batchRaised>>
monoVars == <<monoPc, MT5_AVAILABLE, mt5_connected, monoStartup, monoReq, monoAnswer, monoShutdowns>>
tradingVars == <<tradingCall, tradingOut, tradingStatus, tradingOrder>>
ctlVars == <<ctlReq, ctlResp>>
searchVars == <<searchPc, searchReq, searchListed, searchOut>>
facadeVars == <<facRepository, facUseCases, facLive, facMade, facLast>>
connVars == <<_is_connected, connRecentInit, connShutdownSince, connLast, connTerminal>>
cmpVars == <<cmpStartup, cmpProbe, cmpHealth>>
sessVars == <<_session, sessions, callPc, callAttempt, closePc, calledAfterClose>>

vars == <<httpVars, authVars, domainVars, analysisVars, pctVars, healthVars, repoVars,
    fetchVars, chainVars, poolVars, batchVars, monoVars, tradingVars, ctlVars,
    searchVars, facadeVars, connVars, cmpVars, sessVars>>

notHttp == <<authVars, domainVars, analysisVars, pctVars, healthVars, repoVars,
    fetchVars, chainVars, poolVars, batchVars, monoVars, tradingVars, ctlVars,
    searchVars, facadeVars, connVars, cmpVars, sessVars>>
notAuth == <<httpVars, domainVars, analysisVars, pctVars, healthVars, repoVars,
    fetchVars, chainVars, poolVars, batchVars, monoVars, tradingVars, ctlVars,
    searchVars, facadeVars, connVars, cmpVars, sessVars>>
notDomain == <<httpVars, authVars, analysisVars, pctVars, healthVars, repoVars,
    fetchVars, chainVars, poolVars, batchVars, monoVars, tradingVars, ctlVars,
    searchVars, facadeVars, connVars, cmpVars, sessVars>>
notAnalysis == <<httpVars, authVars, domainVars, pctVars, healthVars, repoVars,
    fetchVars, chainVars, poolVars, batchVars, monoVars, tradingVars, ctlVars,
    searchVars, facadeVars, connVars, cmpVars, sessVars>>
notPct == <<httpVars, authVars, domainVars, analysisVars, healthVars, repoVars,
    fetchVars, chainVars, poolVars, batchVars, monoVars, tradingVars, ctlVars,
    searchVars, facadeVars, connVars, cmpVars, sessVars>>
notHealth == <<httpVars, authVars, domainVars, analysisVars, pctVars, repoVars,
    fetchVars, chainVars, poolVars, batchVars, monoVars, tradingVars, ctlVars,
    searchVars, facadeVars, connVars, cmpVars, sessVars>>
notRepo == <<httpVars, authVars, domainVars, analysisVars, pctVars, healthVars,
    fetchVars, chainVars, poolVars, batchVars, monoVars, tradingVars, ctlVars,
    searchVars, facadeVars, connVars, cmpVars, sessVars>>
notFetch == <<httpVars, authVars, domainVars, analysisVars, pctVars, healthVars,
    repoVars, chainVars, poolVars, batchVars, monoVars, tradingVars, ctlVars,
    searchVars, facadeVars, connVars, cmpVars, sessVars>>
notChain == <<httpVars, authVars, domainVars, analysisVars, pctVars, healthVars,
    repoVars, fetchVars, poolVars, batchVars, monoVars, tradingVars, ctlVars,
    searchVars, facadeVars, connVars, cmpVars, sessVars>>
notPool == <<httpVars, authVars, domainVars, analysisVars, pctVars, healthVars,
    repoVars, fetchVars, chainVars, batchVars, monoVars, tradingVars, ctlVars,
    searchVars, facadeVars, connVars, cmpVars, sessVars>>
notBatch == <<httpVars, authVars, domainVars, analysisVars, pctVars, healthVars,
    repoVars, fetchVars, chainVars, poolVars, monoVars, tradingVars, ctlVars,
    searchVars, facadeVars, connVars, cmpVars, sessVars>>
notMono == <<httpVars, authVars, domainVars, analysisVars, pctVars, healthVars,
    repoVars, fetchVars, chainVars, poolVars, batchVars, tradingVars, ctlVars,
    searchVars, facadeVars, connVars, cmpVars, sessVars>>
notTrading == <<httpVars, authVars, domainVars, analysisVars, pctVars, healthVars,
    repoVars, fetchVars, chainVars, poolVars, batchVars, monoVars, ctlVars, searchVars,
    facadeVars, connVars, cmpVars, sessVars>>
notCtl == <<httpVars, authVars, domainVars, analysisVars, pctVars, healthVars,
    repoVars, fetchVars, chainVars, poolVars, batchVars, monoVars, tradingVars,
    searchVars, facadeVars, connVars, cmpVars, sessVars>>
notSearch == <<httpVars, authVars, domainVars, analysisVars, pctVars, healthVars,
    repoVars, fetchVars, chainVars, poolVars, batchVars, monoVars, tradingVars,
    ctlVars, facadeVars, connVars, cmpVars, sessVars>>
notFacade == <<httpVars, authVars, domainVars, analysisVars, pctVars, healthVars,
    repoVars, fetchVars, chainVars, poolVars, batchVars, monoVars, tradingVars,
    ctlVars, searchVars, connVars, cmpVars, sessVars>>
notConn == <<httpVars, authVars, domainVars, analysisVars, pctVars, healthVars,
    repoVars, fetchVars, chainVars, poolVars, batchVars, monoVars, tradingVars,
    ctlVars, searchVars, facadeVars, cmpVars, sessVars>>
notCmp == <<httpVars, authVars, domainVars, analysisVars, pctVars, healthVars,
    repoVars, fetchVars, chainVars, poolVars, batchVars, monoVars, tradingVars,
    ctlVars, searchVars, facadeVars, connVars, sessVars>>
notSess == <<httpVars, authVars, domainVars, analysisVars, pctVars, healthVars,
    repoVars, fetchVars, chainVars, poolVars, batchVars, monoVars, tradingVars,
    ctlVars, searchVars, facadeVars, connVars, cmpVars>>

None == << >>
Some(v) == << v >>

(***************************************************************************)
(* Bounds of the model.                                                    *)
(***************************************************************************)
MaxRetriesBound == 3
\* prices of the domain specification are 0..MaxPrice
MaxPrice == 2
\* a MarketData holds at most MaxTickers tickers
MaxTickers == 2
\* an analysis covers at most MaxSymbols symbols
MaxSymbols == 5
\* candle closes of the percent-change specification are -1..MaxClose
MaxClose == 4

\* one MT5Repository creates at most MaxClients HttpClient objects
MaxClients == 2

\* open-position requests served at once by the layered server
MaxRequests == 2
\* MT5TradingService objects made over a run of the layered server
MaxServices == 3
\* names in one percent-change request of the layered server
MaxBatch == 2
\* largest position ticket of a close-position request
MaxTicket == 1
\* symbols listed by the server for a search, and the largest limit of a search
MaxListed == 3
MaxLimit == 2
\* repositories one MT5TradingClient builds over its life
MaxFacadeRepos == 3
\* concurrent post/get calls on one HttpClient, and sessions it may make
MaxCallers == 2
MaxSessions == 3

\* ApiConfig.max_retries: int = 3
DefaultMaxRetries == 3

(***************************************************************************)
(* HttpClient.post / HttpClient.get                                        *)
(***************************************************************************)
\* What one request can end in: a decoded body, asyncio.TimeoutError,
\* aiohttp.ClientError (raise_for_status and transport errors), or a failure
\* that neither except clause catches (a body that is not JSON).
Outcomes == {"ok", "timeout", "client_error", "other_error"}
Transient == {"timeout", "client_error"}

Scripts == [1..MaxRetriesBound -> Outcomes]

\* HttpClient._ensure_session: a missing session is created, an open one is kept.
EnsureSession(s) == IF s = "None" THEN "open" ELSE s

\* `if attempt == self.config.max_retries - 1: raise`
IsLastAttemptEarly(a, mr) == a = mr - 2
IsLastAttempt(a, mr) == a = mr - 1

\* The bare `raise` inside an except clause re-raises the caught failure.
ReRaisedGeneric(kind) == "Exception"
ReRaised(kind) == IF kind = "timeout" THEN "TimeoutError" ELSE "ClientError"

HttpStart(mr) ==
    /\ max_retries = mr
    /\ session = "None"
    /\ httpPc = "idle"
    /\ verb = "none"
    /\ script = [i \in 1..MaxRetriesBound |-> "ok"]
    /\ attempt = 0
    /\ requests = 0
    /\ sleeps = 0
    /\ result = None
    /\ raised = "none"

\* The call is entered: the session is ensured and the loop starts. With
\* max_retries <= 0 the loop body never runs and the generic failure is raised.
HttpCall(v, sc) ==
    /\ httpPc = "idle"
    /\ verb' = v
    /\ script' = sc
    /\ session' = EnsureSession(session)
    /\ attempt' = 0
    /\ requests' = 0
    /\ sleeps' = 0
    /\ result' = None
    /\ IF max_retries >= 1
         THEN httpPc' = "attempt" /\ raised' = "none"
         ELSE httpPc' = "raised" /\ raised' = "Exception"
    /\ UNCHANGED max_retries
    /\ UNCHANGED notHttp

\* One iteration of the loop up to its return, its raise or its sleep.
HttpAttempt ==
    /\ httpPc = "attempt"
    /\ requests' = requests + 1
    /\ LET outcome == script[attempt + 1] IN
         CASE outcome = "ok" ->
                /\ httpPc' = "returned"
                /\ result' = Some(attempt + 1)
                /\ raised' = "none"
           [] outcome \in Transient ->
                /\ result' = None
                /\ IF IsLastAttempt(attempt, max_retries)
                     THEN httpPc' = "raised" /\ raised' = ReRaised(outcome)
                     ELSE httpPc' = "sleep" /\ raised' = "none"
           [] OTHER ->
                /\ httpPc' = "raised"
                /\ result' = None
                /\ raised' = "OtherError"
    /\ UNCHANGED <<max_retries, session, verb, script, attempt, sleeps>>
    /\ UNCHANGED notHttp

\* `await asyncio.sleep(self.config.retry_delay)`, then the next iteration; the
\* loop falls through to the generic failure when the range is exhausted.
HttpSleep ==
    /\ httpPc = "sleep"
    /\ sleeps' = sleeps + 1
    /\ attempt' = attempt + 1
    /\ IF attempt + 1 < max_retries
         THEN httpPc' = "attempt" /\ raised' = "none"
         ELSE httpPc' = "raised" /\ raised' = "Exception"
    /\ UNCHANGED <<max_retries, session, verb, script, requests, result>>
    /\ UNCHANGED notHttp

\* The caller has its answer; the client is ready for the next call.
HttpDone ==
    /\ httpPc \in {"returned", "raised"}
    /\ httpPc' = "idle"
    /\ verb' = "none"
    /\ UNCHANGED <<max_retries, session, script, attempt, requests, sleeps, result, raised>>
    /\ UNCHANGED notHttp

\* HttpClient.close: an open session is closed and forgotten.
HttpClose ==
    /\ httpPc = "idle"
    /\ session = "open"
    /\ session' = "None"
    /\ UNCHANGED <<max_retries, httpPc, verb, script, attempt, requests, sleeps, result,
                   raised>>
    /\ UNCHANGED notHttp

HttpNext ==
    \/ \E v \in {"POST", "GET"}, sc \in Scripts : HttpCall(v, sc)
    \/ HttpAttempt
    \/ HttpSleep
    \/ HttpDone
    \/ HttpClose

HttpInit == \E mr \in 0..MaxRetriesBound : HttpStart(mr)

\* The client as the other specifications hold it: constructed with the default
\* max_retries and never used.
HttpIdle == HttpStart(DefaultMaxRetries)

\* The call has ended (it returned or raised) and the caller has not yet gone on.
HttpEnded == httpPc \in {"returned", "raised"}

\* The first k requests of the script fail transiently and request k+1 succeeds.
FailsThenSucceeds(k) ==
    /\ k + 1 <= MaxRetriesBound
    /\ \A i \in 1..k : script[i] \in Transient
    /\ script[k + 1] = "ok"

\* C1: for max_retries >= 1 and k < max_retries, when the first k attempts fail
\* with a timeout or transport error and attempt k+1 succeeds, the call returns
\* the result of attempt k+1 after exactly k+1 requests and exactly k sleeps, and
\* raises nothing.
C1_RetryThenSuccess ==
    \A k \in 0..(MaxRetriesBound - 1) :
        (HttpEnded /\ max_retries >= 1 /\ k < max_retries /\ FailsThenSucceeds(k))
            => /\ httpPc = "returned"
               /\ result = Some(k + 1)
               /\ requests = k + 1
               /\ sleeps = k
               /\ raised = "none"

C1_Witness ==
    /\ httpPc = "returned"
    /\ max_retries = 3
    /\ script[1] = "timeout" /\ script[2] = "client_error" /\ script[3] = "ok"
    /\ requests = 3
    /\ sleeps = 2

\* C2: for max_retries >= 1, a call whose every attempt fails with a timeout or
\* transport error sends exactly max_retries requests, sleeps only between
\* consecutive attempts (max_retries - 1 times, never after the last attempt) and
\* raises the failure of the last attempt, not the generic fallback failure.
C2_ExhaustedRetries ==
    /\ (httpPc = "sleep" /\ max_retries >= 1) => requests < max_retries
    /\ (HttpEnded /\ max_retries >= 1 /\ \A i \in 1..max_retries : script[i] \in Transient)
            => /\ httpPc = "raised"
               /\ requests = max_retries
               /\ sleeps = max_retries - 1
               /\ raised = ReRaised(script[max_retries])
               /\ raised # "Exception"
               /\ result = None

C2_Witness ==
    /\ httpPc = "raised"
    /\ max_retries = 3
    /\ \A i \in 1..3 : script[i] \in Transient
    /\ script[3] = "timeout"
    /\ raised = "TimeoutError"
    /\ requests = 3
    /\ sleeps = 2

(***************************************************************************)
(* Authentication middleware of the two servers                            *)
(*                                                                         *)
(* A string is modelled as the sequence of its lexemes: concatenating the  *)
(* lexemes gives the string, "" is << >>, and the lexemes are cut finely   *)
(* enough that str.startswith is the prefix relation on the sequences.     *)
(* A comma-separated environment value is the sequence of its fields.      *)
(***************************************************************************)
\* str.startswith
StartsWith(s, p) == Len(p) <= Len(s) /\ SubSeq(s, 1, Len(p)) = p

\* bool(str)
Truthy(s) == Len(s) > 0

\* `a or b` on two Optional strings (headers.get returns None for a missing header)
OrElse(a, b) == IF a # None /\ Truthy(a[1]) THEN a ELSE b

\* str.strip on the strings of the model: blanks are the lexeme " "
RECURSIVE LStrip(_)
LStrip(s) == IF s # << >> /\ Head(s) = " " THEN LStrip(Tail(s)) ELSE s
RECURSIVE RStrip(_)
RStrip(s) == IF s # << >> /\ s[Len(s)] = " " THEN RStrip(SubSeq(s, 1, Len(s) - 1)) ELSE s
Strip(s) == RStrip(LStrip(s))

\* The key both servers hard-code.
DEFAULT_API_KEY == <<"cb9c4299c9ac5437d74c22fad0314cc16e3615c4c802855fdc1287eb69dd57b4">>
KEY2 == <<"k2">>
KEY3 == <<"k3">>
BAD_KEY == <<"api-key-falsa-para-teste">>

\* API_KEYS in the environment: unset, "", "k2", "k2, k3", "k2,"
EnvValues ==
    { None,
      Some(<< << >> >>),
      Some(<< KEY2 >>),
      Some(<< KEY2, <<" ">> \o KEY3 >>),
      Some(<< KEY2, << >> >>) }

\* bool(os.getenv("API_KEYS")): unset (None) and "" are falsy
EnvTruthy(env) == env # None /\ env[1] # << << >> >>

RECURSIVE FilterTruthy(_)
FilterTruthy(keys) ==
    IF keys = << >> THEN << >>
    ELSE (IF Truthy(Head(keys)) THEN << Head(keys) >> ELSE << >>) \o FilterTruthy(Tail(keys))

\* server/app.py: the default key, then the fields of API_KEYS, empty strings dropped
MonolithApiKeys(env) ==
    FilterTruthy(<< DEFAULT_API_KEY >> \o (IF EnvTruthy(env) THEN env[1] ELSE << >>))

\* EnvironmentConfigurationService.get_api_keys: the default key, then the stripped
\* fields of API_KEYS
GetApiKeys(env) ==
    IF env # None /\ EnvTruthy(env)
      THEN << DEFAULT_API_KEY >> \o [i \in 1..Len(env[1]) |-> Strip(env[1][i])]
      ELSE << DEFAULT_API_KEY >>

Range(f) == { f[i] : i \in DOMAIN f }

\* SimpleAuthenticationService.validate_api_key, given the key cache it ends with
ValidKeysAfter(cache, env) == IF cache = None THEN Some(Range(GetApiKeys(env))) ELSE cache
ValidateApiKey(key, cache, env) == Truthy(key) /\ key \in ValidKeysAfter(cache, env)[1]

PERMISSIONS ==
    { "read:symbols", "read:market_data", "read:account", "trade:open_position",
      "trade:close_position", "trade:modify_position" }

\* Request paths
ROOT == <<"/">>
HEALTH == <<"/", "health">>
DOCS == <<"/", "docs">>
REDOC == <<"/", "redoc">>
OPENAPI == <<"/", "openapi.json">>
FAVICON == <<"/", "favicon.ico">>
GET_SYMBOLS == <<"/", "GetSymbol", "s", "/">>
GET_SYMBOL_INFO == <<"/", "GetSymbol", "Info", "/">>
GET_TICKERS == <<"/", "GetTickers", "/">>
GET_TICKERS_POS == <<"/", "GetTickers", "Pos", "/">>
GET_SYMBOLS_PCT_CHANGE == <<"/", "GetSymbol", "s", "PctChange", "/">>
MARKET_DATA == <<"/", "api", "/", "v1", "/", "market-data">>
TRADING == <<"/", "api", "/", "v1", "/", "trading">>
MD_SYMBOLS == MARKET_DATA \o <<"/", "symbols">>
MD_TICKERS == MARKET_DATA \o <<"/", "tickers">>
TR_OPEN_POSITION == TRADING \o <<"/", "open-position">>
TR_CLOSE_POSITION == TRADING \o <<"/", "close-position">>

MonolithBusinessPaths ==
    { GET_SYMBOLS, GET_SYMBOL_INFO, GET_TICKERS, GET_TICKERS_POS, GET_SYMBOLS_PCT_CHANGE }
MonolithRoutes == { ROOT, HEALTH, DOCS, REDOC, OPENAPI } \cup MonolithBusinessPaths
LayeredBusinessPaths == { MD_SYMBOLS, MD_TICKERS, TR_OPEN_POSITION, TR_CLOSE_POSITION }
LayeredRoutes == { ROOT, HEALTH, DOCS, REDOC } \cup LayeredBusinessPaths

Paths == MonolithRoutes \cup LayeredRoutes \cup { FAVICON }

\* Values of the AcessKey and Authorization headers
HeaderValues ==
    { None, Some(<< >>), Some(DEFAULT_API_KEY), Some(KEY3), Some(BAD_KEY),
      Some(<<"Bearer ">> \o DEFAULT_API_KEY) }

\* A request that uses the method of the route at its path.
Requests(server) ==
    [ server : {server}, path : Paths, AcessKey : HeaderValues,
      Authorization : HeaderValues, docsCredentials : BOOLEAN ]

NoRequest ==
    [ server |-> "none", path |-> << >>, AcessKey |-> None, Authorization |-> None,
      docsCredentials |-> FALSE ]

\* A response: its status, its error code (layered) or hint (monolith), whether the
\* route handler ran, the branch of the middleware that decided, the permissions
\* attached to request.state and whether X-Process-Time was added.
Response(status, code, invoked, branch, perms, timed) ==
    [ status |-> status, error_code |-> code, invoked |-> invoked, branch |-> branch,
      user_permissions |-> perms, process_time |-> timed ]

NoResponse == Response(0, "", FALSE, "none", {}, FALSE)

\* call_next: the router runs the handler of the route at the path, or answers 404.
\* The monolith's documentation routes run behind authenticate_docs (HTTP Basic).
CallNext(r, branch, perms, timed) ==
    LET routes == IF r.server = "monolith" THEN MonolithRoutes ELSE LayeredRoutes IN
    IF r.path \notin routes
      THEN Response(404, "", FALSE, branch, perms, timed)
    ELSE IF r.server = "monolith" /\ r.path \in { DOCS, REDOC, OPENAPI }
            /\ ~r.docsCredentials
      THEN Response(401, "", FALSE, branch, perms, timed)
    ELSE Response(200, "", TRUE, branch, perms, timed)

\* AuthenticationMiddleware._public_endpoints
LayeredPublicEndpoints == { DOCS, REDOC, OPENAPI, HEALTH, ROOT }

\* `any(request.url.path.startswith(endpoint) for endpoint in ...)`
IsPublic(path, endpoints) == \E e \in endpoints : StartsWith(path, e)

\* `if api_key.startswith("Bearer "): api_key = api_key[7:]`
StripBearer(key) == IF StartsWith(key, <<"Bearer ">>) THEN Tail(key) ELSE key

\* AuthenticationMiddleware.dispatch
LayeredDispatch(r, cache, env) ==
    LET api_key == OrElse(r.AcessKey, r.Authorization) IN
    IF IsPublic(r.path, LayeredPublicEndpoints)
      THEN CallNext(r, "public", {}, FALSE)
    ELSE IF api_key = None \/ ~Truthy(api_key[1])
      THEN Response(401, "MISSING_API_KEY", FALSE, "rejected", {}, FALSE)
    ELSE IF ~ValidateApiKey(StripBearer(api_key[1]), cache, env)
      THEN Response(401, "INVALID_API_KEY", FALSE, "rejected", {}, FALSE)
    ELSE CallNext(r, "authenticated", PERMISSIONS, TRUE)

\* The key cache after dispatch: filled by the first validate_api_key that gets a
\* non-empty key.
LayeredCacheAfter(r, cache, env) ==
    LET api_key == OrElse(r.AcessKey, r.Authorization) IN
    IF IsPublic(r.path, LayeredPublicEndpoints) THEN cache
    ELSE IF api_key = None \/ ~Truthy(api_key[1]) THEN cache
    ELSE IF ~Truthy(StripBearer(api_key[1])) THEN cache
    ELSE ValidKeysAfter(cache, env)

\* auth_middleware of server/app.py
MonolithPublicPaths == { ROOT, HEALTH }
MonolithDocsPaths == { DOCS, REDOC, OPENAPI }

MonolithAuthMiddleware(r, keys) ==
    LET api_key == OrElse(r.AcessKey, r.Authorization) IN
    IF IsPublic(r.path, MonolithPublicPaths)
      THEN CallNext(r, "public", {}, FALSE)
    ELSE IF IsPublic(r.path, MonolithDocsPaths)
      THEN CallNext(r, "docs", {}, FALSE)
    ELSE IF Len(keys) = 0
      THEN CallNext(r, "no_keys", {}, FALSE)
    ELSE IF api_key = None \/ ~Truthy(api_key[1]) \/ api_key[1] \notin Range(keys)
      THEN Response(401, "hint", FALSE, "rejected", {}, FALSE)
    ELSE CallNext(r, "authenticated", {}, TRUE)

AuthStart(env) ==
    /\ apiKeysEnv = env
    /\ API_KEYS = MonolithApiKeys(env)
    /\ valid_keys = None
    /\ req = NoRequest
    /\ resp = NoResponse

AuthInit == \E env \in EnvValues : AuthStart(env)
AuthIdle == AuthStart(None)

LayeredRequest(r) ==
    /\ req = NoRequest
    /\ req' = r
    /\ resp' = LayeredDispatch(r, valid_keys, apiKeysEnv)
    /\ valid_keys' = LayeredCacheAfter(r, valid_keys, apiKeysEnv)
    /\ UNCHANGED <<apiKeysEnv, API_KEYS>>
    /\ UNCHANGED notAuth

MonolithRequest(r) ==
    /\ req = NoRequest
    /\ req' = r
    /\ resp' = MonolithAuthMiddleware(r, API_KEYS)
    /\ UNCHANGED <<apiKeysEnv, API_KEYS, valid_keys>>
    /\ UNCHANGED notAuth

\* The response has been sent: the request and its state are gone, the servers'
\* keys stay.
ResponseSent ==
    /\ req # NoRequest
    /\ req' = NoRequest
    /\ resp' = NoResponse
    /\ UNCHANGED <<apiKeysEnv, API_KEYS, valid_keys>>
    /\ UNCHANGED notAuth

AuthNext ==
    \/ \E r \in Requests("layered") : LayeredRequest(r)
    \/ \E r \in Requests("monolith") : MonolithRequest(r)
    \/ ResponseSent

\* The request carries neither header.
NoKeyHeaders(r) == r.AcessKey = None /\ r.Authorization = None

\* C3: in the layered server a request to a protected endpoint (any path but /docs,
\* /redoc, /openapi.json, /health and the root path itself) that carries neither an
\* AcessKey nor an Authorization header is answered 401 MISSING_API_KEY and the route
\* handler does not run.
C3_LayeredMissingKeyRejected ==
    (/\ req.server = "layered"
     /\ req.path \in LayeredRoutes \ LayeredPublicEndpoints
     /\ NoKeyHeaders(req))
        => /\ resp.status = 401
           /\ resp.error_code = "MISSING_API_KEY"
           /\ ~resp.invoked

\* C4: in the monolith, with a non-empty accepted-key set, a request to a business
\* endpoint whose AcessKey/Authorization header is missing or is not an accepted key
\* is answered 401 with the hint body and the endpoint handler does not run.
C4_MonolithBadKeyRejected ==
    LET api_key == OrElse(req.AcessKey, req.Authorization) IN
    (/\ req.server = "monolith"
     /\ Len(API_KEYS) > 0
     /\ req.path \in MonolithBusinessPaths
     /\ (api_key = None \/ api_key[1] \notin Range(API_KEYS)))
        => /\ resp.status = 401
           /\ resp.error_code = "hint"
           /\ ~resp.invoked

\* C5: a monolith started with API_KEYS unset or empty has no accepted key (the set
\* has size 0), and it is the middleware's "no keys configured" branch that admits
\* the requests to the business endpoints, with or without a key.
C5_MonolithNoKeysConfigured ==
    (/\ req.server = "monolith"
     /\ ~EnvTruthy(apiKeysEnv)
     /\ req.path \in MonolithBusinessPaths)
        => /\ Len(API_KEYS) = 0
           /\ resp.branch = "no_keys"
           /\ resp.invoked

(***************************************************************************)
(* Domain entities: Ticker (client and layered server), TradeRequest        *)
(* (layered server), MarketData and MarketDataResponse (client)            *)
(*                                                                         *)
(* Prices are Decimal in the code; the model counts them in whole units.   *)
(***************************************************************************)
Max(a, b) == IF a >= b THEN a ELSE b
Min(a, b) == IF a <= b THEN a ELSE b

Prices == 0..MaxPrice
Optional(S) == { None } \cup { Some(x) : x \in S }

TickerArgs ==
    [ side : {"client", "server"}, symbol : {"", "EURUSD"}, open : Prices, high : Prices,
      low : Prices, close : Prices, volume : {-1, 0, 1000} ]

\* client Ticker.__post_init__: the message of the ValueError raised, "" if none
ClientTickerErrorNoCloseCheck(a) ==
    IF a.symbol = "" THEN "Symbol cannot be empty"
    ELSE IF a.high < a.low THEN "High must be >= Low"
    ELSE IF ~(a.low <= a.open /\ a.open <= a.high) THEN "Open must be between Low and High"
    ELSE IF a.volume < 0 THEN "Volume cannot be negative"
    ELSE ""
ClientTickerError(a) ==
    IF a.symbol = "" THEN "Symbol cannot be empty"
    ELSE IF a.high < a.low THEN "High must be >= Low"
    ELSE IF ~(a.low <= a.open /\ a.open <= a.high) THEN "Open must be between Low and High"
    ELSE IF ~(a.low <= a.close /\ a.close <= a.high)
      THEN "Close must be between Low and High"
    ELSE IF a.volume < 0 THEN "Volume cannot be negative"
    ELSE ""

\* server Ticker.__post_init__ (its fields are open_price, high_price, low_price,
\* close_price)
ServerTickerError(a) ==
    IF a.symbol = "" THEN "Symbol cannot be empty"
    ELSE IF a.high < Max(a.open, a.close) THEN "High price must be >= open and close prices"
    ELSE IF a.low > Min(a.open, a.close) THEN "Low price must be <= open and close prices"
    ELSE IF a.volume < 0 THEN "Volume must be non-negative"
    ELSE ""

\* The dataclass constructor: __init__ stores the fields, then __post_init__ runs.
NewTicker(a) ==
    LET err == IF a.side = "client" THEN ClientTickerError(a) ELSE ServerTickerError(a) IN
    IF err = ""
      THEN [ raised |-> "none", message |-> "",
             ticker |-> Some([ symbol |-> a.symbol, open |-> a.open, high |-> a.high,
                               low |-> a.low, close |-> a.close, volume |-> a.volume ]) ]
      ELSE [ raised |-> "ValueError", message |-> err, ticker |-> None ]

\* TradeRequest
TradeRequests ==
    [ symbol : {"", "EURUSD"}, volume : {0, 1}, order_type : {"BUY", "SELL"},
      price : Optional(Prices), stop_loss : Optional(Prices),
      take_profit : Optional(Prices), deviation : {-1, 20} ]

\* bool(x) of an Optional[Decimal]: None and Decimal(0) are falsy
DecimalTruthy(x) == x # None /\ x[1] # 0

\* TradeRequest.validate: the message of the ValueError raised, "" if none
Validate(t) ==
    IF t.symbol = "" THEN "Symbol cannot be empty"
    ELSE IF t.volume <= 0 THEN "Volume must be positive"
    ELSE IF t.deviation < 0 THEN "Deviation must be non-negative"
    ELSE IF DecimalTruthy(t.price) /\ DecimalTruthy(t.stop_loss)
            /\ DecimalTruthy(t.take_profit)
      THEN IF t.order_type = "BUY"
             THEN IF t.stop_loss[1] >= t.price[1]
                    THEN "Stop loss must be below entry price for BUY orders"
                  ELSE IF t.take_profit[1] <= t.price[1]
                    THEN "Take profit must be above entry price for BUY orders"
                  ELSE ""
           ELSE IF t.order_type = "SELL"
             THEN IF t.stop_loss[1] <= t.price[1]
                    THEN "Stop loss must be above entry price for SELL orders"
                  ELSE IF t.take_profit[1] >= t.price[1]
                    THEN "Take profit must be below entry price for SELL orders"
                  ELSE ""
           ELSE ""
    ELSE ""

\* MarketData (client). Its tickers are Tickers that were constructed: flat candles
\* of either symbol.
MdSymbols == {"EURUSD", "USDJPY"}
FlatCandle(sym, p) ==
    [ symbol |-> sym, open |-> p, high |-> p, low |-> p, close |-> p, volume |-> 0 ]
MdTickers == { FlatCandle(sym, p) : sym \in MdSymbols, p \in Prices }
SeqsUpTo(S, n) == UNION { [1..k -> S] : k \in 0..n }
MdPctChanges == { [ symbol |-> sym, pct_change |-> 0, error |-> None ] : sym \in MdSymbols }

MarketDataArgs ==
    [ symbol : { [ name |-> "EURUSD" ] },
      latest_ticker : Optional(MdTickers),
      tickers : Optional(SeqsUpTo(MdTickers, MaxTickers)),
      percent_change : Optional(MdPctChanges) ]

\* MarketData.__post_init__: the message of the ValueError raised, "" if none
MarketDataError(m) ==
    IF m.latest_ticker # None /\ m.latest_ticker[1].symbol # m.symbol.name
      THEN "Latest ticker symbol must match symbol name"
    ELSE IF m.tickers # None
            /\ \E i \in DOMAIN m.tickers[1] : m.tickers[1][i].symbol # m.symbol.name
      THEN "All tickers must match symbol name"
    ELSE IF m.percent_change # None /\ m.percent_change[1].symbol # m.symbol.name
      THEN "Percent change symbol must match symbol name"
    ELSE ""

\* MarketData.current_price (a Ticker object is truthy, an empty list is falsy)
current_price(m) ==
    IF m.latest_ticker # None THEN Some(m.latest_ticker[1].close)
    ELSE IF m.tickers # None /\ Len(m.tickers[1]) > 0
      THEN Some(m.tickers[1][Len(m.tickers[1])].close)
    ELSE None

\* float(Decimal): exact on the whole prices of the model
ToFloat(d) == d

\* MarketDataResponse.from_entity:
\* current_price=float(market_data.current_price) if market_data.current_price else None
from_entity(m) ==
    [ symbol |-> m.symbol.name,
      latest_ticker |-> m.latest_ticker,
      tickers |-> IF m.tickers # None /\ Len(m.tickers[1]) > 0 THEN m.tickers ELSE None,
      percent_change |-> m.percent_change,
      current_price |-> IF DecimalTruthy(current_price(m))
                          THEN Some(ToFloat(current_price(m)[1])) ELSE None ]

NoTickerArgs ==
    [ side |-> "none", symbol |-> "", open |-> 0, high |-> 0, low |-> 0, close |-> 0,
      volume |-> 0 ]
NoTradeRequest ==
    [ symbol |-> "", volume |-> 0, order_type |-> "none", price |-> None,
      stop_loss |-> None, take_profit |-> None, deviation |-> 20 ]
NoMarketDataArgs ==
    [ symbol |-> [ name |-> "" ], latest_ticker |-> None, tickers |-> None,
      percent_change |-> None ]

NoTickerOutcome == [ raised |-> "none", message |-> "", ticker |-> None ]
NoTradeOutcome == [ raised |-> "none", message |-> "" ]
NoMarketDataOutcome == [ raised |-> "none", entity |-> None, response |-> None ]

\* The entities are values: nothing is kept between two operations, and the
\* variables hold the last operation only.
DomainInit ==
    /\ tickerIn = NoTickerArgs
    /\ tickerOut = NoTickerOutcome
    /\ tradeIn = NoTradeRequest
    /\ tradeOut = NoTradeOutcome
    /\ mdIn = NoMarketDataArgs
    /\ mdOut = NoMarketDataOutcome

DomainIdle == DomainInit

\* No operation is recorded.
DomainQuiet ==
    /\ tickerIn = NoTickerArgs /\ tickerOut = NoTickerOutcome
    /\ tradeIn = NoTradeRequest /\ tradeOut = NoTradeOutcome
    /\ mdIn = NoMarketDataArgs /\ mdOut = NoMarketDataOutcome

\* Ticker(...) in the client's or the layered server's domain
ConstructTicker(a) ==
    /\ DomainQuiet
    /\ tickerIn' = a
    /\ tickerOut' = NewTicker(a)
    /\ UNCHANGED <<tradeIn, tradeOut, mdIn, mdOut>>
    /\ UNCHANGED notDomain

\* TradeRequest.validate()
ValidateTradeRequest(t) ==
    /\ DomainQuiet
    /\ tradeIn' = t
    /\ tradeOut' = [ raised |-> IF Validate(t) = "" THEN "none" ELSE "ValueError",
                     message |-> Validate(t) ]
    /\ UNCHANGED <<tickerIn, tickerOut, mdIn, mdOut>>
    /\ UNCHANGED notDomain

\* MarketData(...) and, if it was constructed, MarketDataResponse.from_entity of it
ConstructMarketData(m) ==
    /\ DomainQuiet
    /\ mdIn' = m
    /\ mdOut' = IF MarketDataError(m) = ""
                  THEN [ raised |-> "none", entity |-> Some(m),
                         response |-> Some(from_entity(m)) ]
                  ELSE [ raised |-> "ValueError", entity |-> None, response |-> None ]
    /\ UNCHANGED <<tickerIn, tickerOut, tradeIn, tradeOut>>
    /\ UNCHANGED notDomain

\* The caller drops the outcome; the next operation starts from nothing.
DomainForget ==
    /\ ~DomainQuiet
    /\ tickerIn' = NoTickerArgs /\ tickerOut' = NoTickerOutcome
    /\ tradeIn' = NoTradeRequest /\ tradeOut' = NoTradeOutcome
    /\ mdIn' = NoMarketDataArgs /\ mdOut' = NoMarketDataOutcome
    /\ UNCHANGED notDomain

DomainNext ==
    \/ \E a \in TickerArgs : ConstructTicker(a)
    \/ \E t \in TradeRequests : ValidateTradeRequest(t)
    \/ \E m \in MarketDataArgs : ConstructMarketData(m)
    \/ DomainForget

\* high >= max(open, close) and low <= min(open, close)
CandleConsistent(t) == t.high >= Max(t.open, t.close) /\ t.low <= Min(t.open, t.close)

\* C6: in the client and in the layered server, every Ticker that is constructed has
\* high >= max(open, close) and low <= min(open, close); a construction whose values
\* violate either inequality raises the validation failure and yields no Ticker.
C6_TickerCandleInvariant ==
    tickerIn.side \in {"client", "server"} =>
        /\ tickerOut.ticker # None =>
              /\ CandleConsistent(tickerOut.ticker[1])
              /\ tickerOut.raised = "none"
              /\ \A f \in {"open", "high", "low", "close"} :
                    tickerOut.ticker[1][f] = tickerIn[f]
        /\ ~CandleConsistent(tickerIn) =>
              /\ tickerOut.raised = "ValueError"
              /\ tickerOut.ticker = None

C6_Witness ==
    /\ tickerIn.side = "client"
    /\ tickerIn.symbol # "" /\ tickerIn.volume >= 0
    /\ tickerIn.low <= tickerIn.open /\ tickerIn.open <= tickerIn.high
    /\ tickerIn.high < tickerIn.close
    /\ tickerOut.raised = "ValueError"
    /\ tickerOut.ticker = None

\* C7: TradeRequest.validate raises the validation failure for every BUY request
\* that has a price and a stop_loss with stop_loss >= price, whatever the
\* take_profit (also when it is absent), and for every SELL request that has a price
\* and a stop_loss with stop_loss <= price.
C7_StopLossAlwaysChecked ==
    (/\ tradeIn.order_type \in {"BUY", "SELL"}
     /\ tradeIn.price # None
     /\ tradeIn.stop_loss # None
     /\ \/ tradeIn.order_type = "BUY" /\ tradeIn.stop_loss[1] >= tradeIn.price[1]
        \/ tradeIn.order_type = "SELL" /\ tradeIn.stop_loss[1] <= tradeIn.price[1])
        => tradeOut.raised = "ValueError"

\* C8: for every MarketData aggregate md, MarketDataResponse.from_entity(md)
\* .current_price equals md.current_price (latest_ticker.close if present, else the
\* last ticker's close, else absent), also when that close is 0.
C8_CurrentPriceRoundTrip ==
    mdOut.entity # None =>
        mdOut.response[1].current_price = current_price(mdOut.entity[1])

(***************************************************************************)
(* MarketAnalysisUseCase.analyze_symbols (client)                          *)
(***************************************************************************)
\* A SymbolPercentChange: its pct_change (whole percents) and its Optional error
PctEntries == [ pct_change : {-1, 0, 1}, error : { None, Some("Symbol not found") } ]

\* SymbolPercentChange.is_valid, is_positive, is_negative
is_valid(e) == e.error = None
is_positive(e) == is_valid(e) /\ e.pct_change > 0
is_negative(e) == is_valid(e) /\ e.pct_change < 0

RECURSIVE SumChanges(_)
SumChanges(es) == IF es = << >> THEN 0 ELSE Head(es).pct_change + SumChanges(Tail(es))

\* `count > total_count * 0.6`: the float product is exact whenever it is whole,
\* so the comparison is that of 10 * count with 6 * total_count
ExceedsSixtyPercentOrEqual(count, total_count) == 10 * count >= 6 * total_count
ExceedsSixtyPercent(count, total_count) == 10 * count > 6 * total_count

\* The "statistics" of analyze_symbols; average_change is kept as the pair
\* << sum, total_count >> of the quotient it is
Statistics(pcts) ==
    LET valid_changes == SelectSeq(pcts, is_valid)
        positive_count == Len(SelectSeq(valid_changes, is_positive))
        negative_count == Len(SelectSeq(valid_changes, is_negative))
        total_count == Len(valid_changes)
    IN  IF total_count > 0
          THEN [ total_symbols |-> Len(pcts),
                 valid_symbols |-> Len(valid_changes),
                 positive_count |-> positive_count,
                 negative_count |-> negative_count,
                 average_change |-> << SumChanges(valid_changes), total_count >>,
                 market_sentiment |->
                    IF ExceedsSixtyPercent(positive_count, total_count) THEN "bullish"
                    ELSE IF ExceedsSixtyPercent(negative_count, total_count) THEN "bearish"
                    ELSE "neutral" ]
          ELSE [ total_symbols |-> Len(pcts),
                 valid_symbols |-> Len(valid_changes),
                 positive_count |-> 0,
                 negative_count |-> 0,
                 average_change |-> << 0, 1 >>,
                 market_sentiment |-> "unknown" ]

AnalysisInit ==
    /\ pct_changes = None
    /\ statistics = None

AnalysisIdle == AnalysisInit

\* analyze_symbols, from the percent changes the repository returned (one entry per
\* symbol asked for)
AnalyzeSymbols(pcts) ==
    /\ pct_changes = None
    /\ pct_changes' = Some(pcts)
    /\ statistics' = Some(Statistics(pcts))
    /\ UNCHANGED notAnalysis

\* The caller drops the analysis.
AnalysisForget ==
    /\ pct_changes # None
    /\ pct_changes' = None
    /\ statistics' = None
    /\ UNCHANGED notAnalysis

AnalysisNext ==
    \/ \E pcts \in SeqsUpTo(PctEntries, MaxSymbols) : AnalyzeSymbols(pcts)
    \/ AnalysisForget

\* The entries of pcts without error, and those of them above / below zero
NumValid(pcts) == Cardinality({ i \in DOMAIN pcts : pcts[i].error = None })
NumPositive(pcts) ==
    Cardinality({ i \in DOMAIN pcts : pcts[i].error = None /\ pcts[i].pct_change > 0 })
NumNegative(pcts) ==
    Cardinality({ i \in DOMAIN pcts : pcts[i].error = None /\ pcts[i].pct_change < 0 })

\* C9: the sentiment is "bullish" exactly when the positive symbols are strictly more
\* than 60% of the valid symbols, "bearish" exactly when the negative symbols are
\* strictly more than 60% of them, "neutral" in every other case with a valid
\* symbol, and "unknown" with all counts zero when no symbol is valid; the two
\* conditions never hold together.
C9_SentimentClassification ==
    statistics # None =>
        LET st == statistics[1]
            valid == NumValid(pct_changes[1])
            pos == NumPositive(pct_changes[1])
            neg == NumNegative(pct_changes[1])
            manyPos == valid > 0 /\ 5 * pos > 3 * valid
            manyNeg == valid > 0 /\ 5 * neg > 3 * valid
        IN  /\ (st.market_sentiment = "bullish") <=> manyPos
            /\ (st.market_sentiment = "bearish") <=> manyNeg
            /\ (st.market_sentiment = "neutral") <=> (valid > 0 /\ ~manyPos /\ ~manyNeg)
            /\ (st.market_sentiment = "unknown") <=> (valid = 0)
            /\ ~(manyPos /\ manyNeg)
            /\ st.valid_symbols = valid
            /\ valid > 0 => st.positive_count = pos /\ st.negative_count = neg
            /\ valid = 0 => st.positive_count = 0 /\ st.negative_count = 0

\* Three positive symbols of five valid ones are exactly 60%: not bullish.
C9_Witness ==
    /\ statistics # None
    /\ NumValid(pct_changes[1]) = 5
    /\ NumPositive(pct_changes[1]) = 3
    /\ statistics[1].market_sentiment = "neutral"

(***************************************************************************)
(* Percent change of one symbol: get_symbols_pct_change (monolith) and     *)
(* GetSymbolsPercentChangeUseCase.execute (layered)                        *)
(*                                                                         *)
(* A candle is modelled by its close, in whole price units; a percent      *)
(* change is counted in units of 0.0001 percent (the four decimals kept).  *)
(***************************************************************************)
Closes == (0 - 1)..MaxClose

\* `get_tickers_by_count(symbol, timeframe, 2)`: the terminal returns at most the
\* 2 candles asked for
CandlesAsked == 2
CandleSeqs == SeqsUpTo(Closes, CandlesAsked)

\* round(n / d, 0) for d > 0, Python's round: to the nearest, ties to even
RoundDivTruncating(n, d) == n \div d
RoundDiv(n, d) ==
    LET q == n \div d
        r == n % d
    IN  IF 2 * r < d THEN q
        ELSE IF 2 * r > d THEN q + 1
        ELSE IF q % 2 = 0 THEN q ELSE q + 1

\* ((curr_close - prev_close) / prev_close) * 100, then round(pct_change, 4)
RoundedPctChange(prev_close, curr_close) ==
    RoundDiv((curr_close - prev_close) * 1000000, prev_close)

\* server/app.py get_tickers_by_count: one simulated candle without a connected
\* terminal; otherwise the terminal's candles, and [] when it returns nothing or
\* raises
MonolithTickersByCount(connected, fetch, candles) ==
    IF ~connected THEN << 1 >>
    ELSE IF fetch = "raises" THEN << >>
    ELSE candles

\* server/app.py get_symbols_pct_change, the entry of one symbol
MonolithPctEntry(connected, fetch, candles) ==
    LET tickers == MonolithTickersByCount(connected, fetch, candles) IN
    [ pct_change |-> IF Len(tickers) >= 2
                       THEN IF tickers[1] > 0
                              THEN RoundedPctChange(tickers[1], tickers[2])
                              ELSE 0
                       ELSE 0,
      error |-> None ]

\* GetSymbolsPercentChangeUseCase.execute, the entry of one symbol
LayeredPctEntry(known, fetch, candles) ==
    IF ~known THEN [ pct_change |-> 0, error |-> Some("Symbol not found") ]
    ELSE IF fetch = "raises"
      THEN [ pct_change |-> 0, error |-> Some("Failed to calculate change") ]
    ELSE [ pct_change |-> IF Len(candles) >= 2
                            THEN IF candles[1] > 0
                                   THEN RoundedPctChange(candles[1], candles[2])
                                   ELSE 0
                            ELSE 0,
           error |-> None ]

\* What the percent change of one symbol depends on: the server; whether the
\* monolith's terminal is connected; whether the layered server knows the symbol;
\* whether fetching the candles raises; the candles fetched, oldest first
PctInputs ==
    [ server : {"monolith", "layered"}, connected : BOOLEAN, known : BOOLEAN,
      fetch : {"ok", "raises"}, candles : CandleSeqs ]

NoPctInput ==
    [ server |-> "none", connected |-> FALSE, known |-> FALSE, fetch |-> "ok",
      candles |-> << >> ]
NoPctEntry == [ pct_change |-> 0, error |-> None ]

PctInit ==
    /\ pctIn = NoPctInput
    /\ pctOut = NoPctEntry

PctIdle == PctInit

MonolithPctChange(i) ==
    /\ pctIn = NoPctInput
    /\ i.server = "monolith"
    /\ i.known
    /\ pctIn' = i
    /\ pctOut' = MonolithPctEntry(i.connected, i.fetch, i.candles)
    /\ UNCHANGED notPct

LayeredPctChange(i) ==
    /\ pctIn = NoPctInput
    /\ i.server = "layered"
    /\ i.connected
    /\ pctIn' = i
    /\ pctOut' = LayeredPctEntry(i.known, i.fetch, i.candles)
    /\ UNCHANGED notPct

\* The entry has been returned with the batch.
PctReturned ==
    /\ pctIn # NoPctInput
    /\ pctIn' = NoPctInput
    /\ pctOut' = NoPctEntry
    /\ UNCHANGED notPct

PctNext ==
    \/ \E i \in PctInputs : MonolithPctChange(i)
    \/ \E i \in PctInputs : LayeredPctChange(i)
    \/ PctReturned

\* The candles the computation had: none of them is missing through a failure
\* (layered: the symbol is known and the fetch did not raise; monolith: the
\* terminal is connected and the fetch did not raise).
CandlesFetched ==
    /\ pctIn.server \in {"monolith", "layered"}
    /\ pctIn.fetch = "ok"
    /\ pctIn.server = "layered" => pctIn.known
    /\ pctIn.server = "monolith" => pctIn.connected

\* C10 as stated: in both servers the percent change is exactly 0.0 with no error
\* when fewer than 2 candles are available or the previous close is 0, and
\* otherwise equals ((current_close - previous_close) / previous_close) * 100.
C10_ExactPctChange ==
    CandlesFetched =>
        LET c == pctIn.candles IN
        IF Len(c) < 2 \/ c[1] = 0
          THEN pctOut.pct_change = 0 /\ pctOut.error = None
          ELSE pctOut.pct_change * c[1] = (c[2] - c[1]) * 1000000

\* C10 amended: in both servers the percent change is exactly 0.0 with no error
\* when fewer than 2 candles are available or the previous close is 0 or below, and
\* otherwise it is ((current_close - previous_close) / previous_close) * 100
\* rounded to 4 decimals (the multiple of 0.0001 nearest to it), with no error.
C10_RoundedPctChange ==
    CandlesFetched =>
        LET c == pctIn.candles IN
        IF Len(c) < 2 \/ c[1] <= 0
          THEN pctOut.pct_change = 0 /\ pctOut.error = None
          ELSE /\ 2 * (pctOut.pct_change * c[1] - (c[2] - c[1]) * 1000000) <= c[1]
               /\ 2 * ((c[2] - c[1]) * 1000000 - pctOut.pct_change * c[1]) <= c[1]
               /\ pctOut.error = None

\* previous close 3, current close 2: -33.3333..., rounded to -33.3333
C10_Witness ==
    /\ pctIn.server = "layered"
    /\ pctIn.known /\ pctIn.fetch = "ok"
    /\ pctIn.candles = << 3, 2 >>
    /\ pctOut.pct_change = 0 - 333333
    /\ pctOut.error = None

(***************************************************************************)
(* HealthRepositoryAdapter.check_health / get_api_info, ApiResponse and    *)
(* CheckApiHealthUseCase.execute (client)                                  *)
(***************************************************************************)
\* bool(s) of a Python str
StrTruthy(s) == s # ""

\* The JSON object of GET /health or GET /: each of the keys the client reads is
\* present or not, and so are other keys (version, api_name, timestamp, ...)
HealthPayloads ==
    [ status : Optional({"healthy", "degraded", "unhealthy"}),
      mt5_connection : Optional({"connected", "disconnected"}),
      mt5_available : Optional(BOOLEAN),
      other : BOOLEAN ]

EmptyPayload ==
    [ status |-> None, mt5_connection |-> None, mt5_available |-> None, other |-> FALSE ]

\* bool(data) of the decoded object: an object without keys is falsy
PayloadTruthy(d) == d # EmptyPayload

\* data.get(key, default)
DictGet(d, key, default) == IF d[key] = None THEN default ELSE d[key][1]

\* The failures HttpClient.get ends in, with their str(e): the asyncio.TimeoutError
\* of an expired timeout carries no message, an aiohttp.ClientError carries its
\* own, and the Exception after the loop the one built there
HealthFailures ==
    { [ exception |-> "TimeoutError", message |-> "" ],
      [ exception |-> "ClientError", message |-> "Cannot connect to host" ],
      [ exception |-> "ClientError", message |-> "Server disconnected" ],
      [ exception |-> "Exception", message |-> "Failed to GET" ] }

\* What HttpClient.get ends in: the decoded object, or a failure
HealthGetOutcomes ==
    [ raises : {FALSE}, data : HealthPayloads, failure : {None} ]
        \cup [ raises : {TRUE}, data : {EmptyPayload},
               failure : { Some(f) : f \in HealthFailures } ]

\* ApiResponse(success, data, error_message): __post_init__ raises ValueError for a
\* failed response without a (non-empty) message and for a successful one with one
ApiResponseError(success, error_message) ==
    IF ~success /\ ~(error_message # None /\ StrTruthy(error_message[1]))
      THEN "Failed responses must have error message"
    ELSE IF success /\ (error_message # None /\ StrTruthy(error_message[1]))
      THEN "Successful responses should not have error message"
    ELSE ""

\* The outcome of constructing an ApiResponse: the response, or the ValueError raised
NewApiResponse(success, data, error_message) ==
    IF ApiResponseError(success, error_message) # ""
      THEN [ raised |-> "ValueError", response |-> None ]
      ELSE [ raised |-> "none",
             response |-> Some([ success |-> success, data |-> data,
                                 error_message |-> error_message ]) ]

\* ApiResponse.success_response / ApiResponse.error_response
success_response(data) == NewApiResponse(TRUE, Some(data), None)
error_response(error_message) == NewApiResponse(FALSE, None, Some(error_message))

\* HealthRepositoryAdapter.check_health and get_api_info: the body of the try, and
\* the except handler, whose own failure propagates
HealthAdapterCall(get) ==
    IF ~get.raises THEN success_response(get.data)
    ELSE error_response(get.failure[1].message)

\* CheckApiHealthUseCase.execute, given what check_health did
CheckApiHealthExecute(adapter) ==
    IF adapter.raised # "none" THEN [ raised |-> adapter.raised, health |-> None ]
    ELSE LET r == adapter.response[1] IN
         IF r.success /\ r.data # None /\ PayloadTruthy(r.data[1])
           THEN [ raised |-> "none",
                  health |-> Some([ status |-> DictGet(r.data[1], "status", "unknown"),
                                    mt5_connection |->
                                        DictGet(r.data[1], "mt5_connection", "unknown"),
                                    mt5_available |->
                                        DictGet(r.data[1], "mt5_available", FALSE) ]) ]
           ELSE [ raised |-> "none",
                  health |-> Some([ status |-> "error", mt5_connection |-> "disconnected",
                                    mt5_available |-> FALSE ]) ]

NoHealthGet == [ raises |-> FALSE, data |-> EmptyPayload, failure |-> None ]
NoAdapterOutcome == [ raised |-> "none", response |-> None ]
NoHealthOutcome == [ raised |-> "none", health |-> None ]

HealthInit ==
    /\ healthCall = "none"
    /\ healthGet = NoHealthGet
    /\ healthAdapter = NoAdapterOutcome
    /\ healthOut = NoHealthOutcome

HealthIdle == HealthInit

\* MT5TradingClient.check_health -> CheckApiHealthUseCase.execute: its first
\* statement, the call of health.check_health()
CheckHealth(get) ==
    /\ healthCall = "none"
    /\ healthCall' = "check_health"
    /\ healthGet' = get
    /\ healthAdapter' = HealthAdapterCall(get)
    /\ healthOut' = NoHealthOutcome
    /\ UNCHANGED notHealth

\* The rest of CheckApiHealthUseCase.execute, returned through the facade
CheckHealthReturn ==
    /\ healthCall = "check_health"
    /\ healthCall' = "facade"
    /\ healthOut' = CheckApiHealthExecute(healthAdapter)
    /\ UNCHANGED <<healthGet, healthAdapter>>
    /\ UNCHANGED notHealth

\* health.get_api_info()
GetApiInfo(get) ==
    /\ healthCall = "none"
    /\ healthCall' = "get_api_info"
    /\ healthGet' = get
    /\ healthAdapter' = HealthAdapterCall(get)
    /\ healthOut' = NoHealthOutcome
    /\ UNCHANGED notHealth

\* The caller has the outcome.
HealthForget ==
    /\ healthCall \in {"facade", "get_api_info"}
    /\ healthCall' = "none"
    /\ healthGet' = NoHealthGet
    /\ healthAdapter' = NoAdapterOutcome
    /\ healthOut' = NoHealthOutcome
    /\ UNCHANGED notHealth

HealthNext ==
    \/ \E get \in HealthGetOutcomes : CheckHealth(get)
    \/ CheckHealthReturn
    \/ \E get \in HealthGetOutcomes : GetApiInfo(get)
    \/ HealthForget

\* C11: check_health and get_api_info never propagate a failure: whenever the
\* underlying GET fails, whatever its message, they return an ApiResponse with
\* success = false, and the facade's health check returns a not-healthy result
\* instead of raising.
C11_HealthNeverPropagates ==
    (healthCall # "none" /\ healthGet.raises) =>
        /\ healthAdapter.raised = "none"
        /\ healthAdapter.response # None
        /\ ~healthAdapter.response[1].success
        /\ healthCall = "facade" =>
              /\ healthOut.raised = "none"
              /\ healthOut.health # None
              /\ healthOut.health[1].status = "error"

(***************************************************************************)
(* MT5Repository (client): the shared HttpClient, the five cached          *)
(* sub-repository adapters, and adapters kept by a caller                  *)
(***************************************************************************)
\* The five repository properties
RepoProps == {"symbols", "tickers", "analysis", "market_data", "health"}

\* The HttpClient objects one repository creates over its life
ClientIds == 1..MaxClients

NoAdapters == [p \in RepoProps |-> None]

\* The properties whose getter runs when p is read: MarketDataRepositoryAdapter is
\* built from self.symbols, self.tickers and self.analysis
Builds(p) == IF p = "market_data" THEN {"symbols", "tickers", "analysis", "market_data"}
             ELSE {p}

\* A getter that builds nothing and raises nothing without transport
PropertyGetUnchecked(p, http, adapters) ==
    IF adapters[p] # None \/ http = None
      THEN [ raised |-> "none", adapters |-> adapters,
             ref |-> IF adapters[p] # None THEN Some(adapters[p][1]) ELSE Some(1) ]
    ELSE [ raised |-> "none",
           adapters |-> [q \in RepoProps |->
                            IF q \in Builds(p) /\ adapters[q] = None THEN http
                            ELSE adapters[q]],
           ref |-> http ]

\* A property getter: the cached adapter if there is one; RuntimeError without
\* transport; otherwise the adapter is built on the transport and cached
PropertyGet(p, http, adapters) ==
    IF adapters[p] # None
      THEN [ raised |-> "none", adapters |-> adapters, ref |-> Some(adapters[p][1]) ]
    ELSE IF http = None
      THEN [ raised |-> "RuntimeError", adapters |-> adapters, ref |-> None ]
    ELSE [ raised |-> "none",
           adapters |-> [q \in RepoProps |->
                            IF q \in Builds(p) /\ adapters[q] = None THEN http
                            ELSE adapters[q]],
           ref |-> http ]

\* HttpClient._ensure_session on a client's session
SessionEnsured(s) == IF s = "None" \/ s = "closed" THEN "open" ELSE s

NoRepoOp ==
    [ op |-> "none", prop |-> "", raised |-> "none", requested |-> FALSE,
      opened |-> FALSE, afterClose |-> FALSE ]

RepoInit ==
    /\ repoHttp = None
    /\ repoSessions = [c \in ClientIds |-> "None"]
    /\ repoMade = 0
    /\ repoAdapters = NoAdapters
    /\ repoClosing = None
    /\ repoHeld = None
    /\ repoLast = NoRepoOp

RepoIdle == RepoInit

\* MT5Repository.__aenter__ -> _ensure_http_client
RepoEnter ==
    /\ IF repoHttp = None
         THEN /\ repoMade < MaxClients
              /\ repoMade' = repoMade + 1
              /\ repoHttp' = Some(repoMade + 1)
              /\ repoSessions' = [repoSessions EXCEPT ![repoMade + 1] = SessionEnsured(@)]
         ELSE UNCHANGED <<repoMade, repoHttp, repoSessions>>
    /\ repoLast' = [NoRepoOp EXCEPT !.op = "enter"]
    /\ UNCHANGED <<repoAdapters, repoClosing, repoHeld>>
    /\ UNCHANGED notRepo

\* Reading one of the five properties; the caller keeps the adapter it got
RepoAccess(p) ==
    LET g == PropertyGet(p, repoHttp, repoAdapters) IN
    /\ repoAdapters' = g.adapters
    /\ repoHeld' = IF g.raised = "none" THEN Some([prop |-> p, client |-> g.ref[1]])
                   ELSE repoHeld
    /\ repoLast' = [NoRepoOp EXCEPT !.op = "access", !.prop = p, !.raised = g.raised]
    /\ UNCHANGED <<repoHttp, repoSessions, repoMade, repoClosing>>
    /\ UNCHANGED notRepo

\* MT5Repository.close up to its await: HttpClient.close closes an open session
\* and forgets it; without transport the rest of close runs at once
RepoCloseBegin ==
    /\ repoClosing = None
    /\ IF repoHttp # None
         THEN /\ repoClosing' = repoHttp
              /\ repoSessions' = [repoSessions EXCEPT ![repoHttp[1]] = "None"]
              /\ UNCHANGED repoAdapters
              /\ repoLast' = [NoRepoOp EXCEPT !.op = "closing"]
         ELSE /\ repoAdapters' = NoAdapters
              /\ UNCHANGED <<repoClosing, repoSessions>>
              /\ repoLast' = [NoRepoOp EXCEPT !.op = "close"]
    /\ UNCHANGED <<repoHttp, repoMade, repoHeld>>
    /\ UNCHANGED notRepo

\* MT5Repository.close after its await: the transport and the adapters are dropped
RepoCloseEnd ==
    /\ repoClosing # None
    /\ repoClosing' = None
    /\ repoHttp' = None
    /\ repoAdapters' = NoAdapters
    /\ repoLast' = [NoRepoOp EXCEPT !.op = "close"]
    /\ UNCHANGED <<repoSessions, repoMade, repoHeld>>
    /\ UNCHANGED notRepo

\* A method of the adapter the caller kept: it calls post or get of the HttpClient
\* the adapter was built on, which ensures a session and sends the request
RepoUseHeld ==
    /\ repoHeld # None
    /\ LET c == repoHeld[1].client IN
       /\ repoSessions' = [repoSessions EXCEPT ![c] = SessionEnsured(@)]
       /\ repoLast' = [ op |-> "use", prop |-> repoHeld[1].prop, raised |-> "none",
                        requested |-> TRUE,
                        opened |-> repoSessions[c] # "open",
                        afterClose |-> repoHttp # Some(c) ]
    /\ UNCHANGED <<repoHttp, repoMade, repoAdapters, repoClosing, repoHeld>>
    /\ UNCHANGED notRepo

RepoNext ==
    \/ RepoEnter
    \/ \E p \in RepoProps : RepoAccess(p)
    \/ RepoCloseBegin
    \/ RepoCloseEnd
    \/ RepoUseHeld

\* C12: a cached adapter exists only if the transport exists; reading a property
\* while the transport is absent fails with RuntimeError and creates no adapter;
\* after close() the transport and the five adapters are absent; close() on a closed
\* repository changes nothing.
C12_AdaptersOnlyWithTransport ==
    /\ [](\A p \in RepoProps : repoAdapters[p] # None => repoHttp # None)
    /\ [](repoLast.op = "close" => (repoHttp = None /\ repoAdapters = NoAdapters))
    /\ [][(repoHttp = None /\ repoLast'.op = "access")
            => (repoLast'.raised = "RuntimeError" /\ repoAdapters' = repoAdapters)]_vars
    /\ [][(repoHttp = None /\ repoLast'.op = "close")
            => (repoHttp' = repoHttp /\ repoAdapters' = repoAdapters
                /\ repoSessions' = repoSessions)]_vars

\* A property was read after a close and refused.
C12_Witness ==
    /\ repoLast.op = "access"
    /\ repoLast.raised = "RuntimeError"
    /\ repoMade >= 1
    /\ repoHttp = None
    /\ repoAdapters = NoAdapters

\* C13: once the repository and its transport are closed, using an adapter obtained
\* before the close fails with an invalid-state error, sends no HTTP request and
\* opens no session.
C13_UseAfterCloseFails ==
    (repoLast.op = "use" /\ repoLast.afterClose) =>
        /\ repoLast.raised = "RuntimeError"
        /\ ~repoLast.requested
        /\ ~repoLast.opened

(***************************************************************************)
(* MarketDataRepositoryAdapter.get_complete_market_data (client)           *)
(*                                                                         *)
(* The outcome of a sub-request is an Optional: None when it raised,       *)
(* otherwise the value it returned.                                        *)
(***************************************************************************)
\* Names a caller asks for; the server resolves a name to its upper-case form
RequestedNames == {"EURUSD", "eurusd"}
ResolvedName(symbol_name) == "EURUSD"

\* TickerRepositoryAdapter._map_to_ticker: every ticker carries the requested string
TickersOf(symbol_name, closes) ==
    [i \in 1..Len(closes) |-> FlatCandle(symbol_name, closes[i])]

\* get_latest_ticker: tickers[0] if tickers else None
FirstOrNone(xs) == IF Len(xs) > 0 THEN Some(xs[1]) ELSE None

\* What one get_complete_market_data call meets: the requested name; the lookup
\* (raises, not found, found); and what the three sub-requests end in
FetchInputsOf(n) ==
    [ symbol_name : {n},
      lookup : {"raises", "not_found", "found"},
      latest : Optional({ TickersOf(n, cs) : cs \in SeqsUpTo(Prices, 1) }),
      tickers : Optional({ TickersOf(n, cs) : cs \in SeqsUpTo(Prices, MaxTickers) }),
      percent : Optional({ << >> } \cup
                         { << [ symbol |-> s, pct_change |-> 0, error |-> e ] >> :
                              s \in {n, "USDJPY"},
                              e \in {None, Some("Symbol not found")} }) ]
FetchInputs == UNION { FetchInputsOf(n) : n \in RequestedNames }

\* The three results after `asyncio.gather(*tasks, return_exceptions=True)` and the
\* isinstance(..., Exception) tests: a failed sub-request leaves None
GatheredFields(i) ==
    [ symbol |-> [ name |-> ResolvedName(i.symbol_name) ],
      latest_ticker |-> IF i.latest = None THEN None ELSE FirstOrNone(i.latest[1]),
      tickers |-> i.tickers,
      percent_change |-> IF i.percent = None THEN None ELSE FirstOrNone(i.percent[1]) ]

\* get_complete_market_data
get_complete_market_data(i) ==
    IF i.lookup = "raises" THEN [ raised |-> "Exception", market_data |-> None ]
    ELSE IF i.lookup = "not_found" THEN [ raised |-> "none", market_data |-> None ]
    ELSE IF MarketDataError(GatheredFields(i)) # ""
      THEN [ raised |-> "ValueError", market_data |-> None ]
    ELSE [ raised |-> "none", market_data |-> Some(GatheredFields(i)) ]

\* get_multiple_market_data of a one-name list: the results that are MarketData
get_multiple_market_data(i) ==
    LET r == get_complete_market_data(i) IN
    IF r.raised = "none" /\ r.market_data # None THEN << r.market_data[1] >>
    ELSE << >>

NoFetchInput ==
    [ symbol_name |-> "", lookup |-> "none", latest |-> None, tickers |-> None,
      percent |-> None ]
NoFetchOutcome == [ raised |-> "none", market_data |-> None ]

FetchInit ==
    /\ fetchIn = NoFetchInput
    /\ fetchOut = NoFetchOutcome

FetchIdle == FetchInit

FetchMarketData(i) ==
    /\ fetchIn = NoFetchInput
    /\ fetchIn' = i
    /\ fetchOut' = get_complete_market_data(i)
    /\ UNCHANGED notFetch

\* The caller has the outcome.
FetchForget ==
    /\ fetchIn # NoFetchInput
    /\ fetchIn' = NoFetchInput
    /\ fetchOut' = NoFetchOutcome
    /\ UNCHANGED notFetch

FetchNext ==
    \/ \E i \in FetchInputs : FetchMarketData(i)
    \/ FetchForget

\* C29: when the lookup finds the symbol and the three sub-requests succeed,
\* get_complete_market_data returns a MarketData and does not raise, whatever the
\* case of the requested name and whichever symbol the first percent-change
\* entry names; get_multiple_market_data then holds that symbol.
C29_MarketDataDespiteNameMismatch ==
    (/\ fetchIn # NoFetchInput
     /\ fetchIn.lookup = "found"
     /\ fetchIn.latest # None /\ fetchIn.tickers # None /\ fetchIn.percent # None) =>
      /\ fetchOut.raised = "none"
      /\ fetchOut.market_data # None
      /\ Len(get_multiple_market_data(fetchIn)) = 1

\* C14: once the symbol lookup has succeeded, whichever of the three sub-requests
\* fail, get_complete_market_data returns a MarketData of the symbol in which the
\* fields of the failed sub-requests are absent and the fields of the successful ones
\* carry their results; the call does not fail.
C14_PartialFailureTolerated ==
    fetchIn.lookup = "found" =>
        /\ fetchOut.raised = "none"
        /\ fetchOut.market_data # None
        /\ LET md == fetchOut.market_data[1] IN
           /\ md.symbol.name = ResolvedName(fetchIn.symbol_name)
           /\ fetchIn.latest = None => md.latest_ticker = None
           /\ fetchIn.latest # None => md.latest_ticker = FirstOrNone(fetchIn.latest[1])
           /\ md.tickers = fetchIn.tickers
           /\ fetchIn.percent = None => md.percent_change = None
           /\ fetchIn.percent # None => md.percent_change = FirstOrNone(fetchIn.percent[1])

(***************************************************************************)
(* The middleware chain of the layered server (create_app)                 *)
(***************************************************************************)
\* SecurityHeadersMiddleware._security_headers (the names)
SECURITY_HEADERS ==
    { "X-Content-Type-Options", "X-Frame-Options", "X-XSS-Protection",
      "Strict-Transport-Security", "Content-Security-Policy", "Referrer-Policy" }

\* app.add_middleware: "last added = first executed", the middleware added goes in
\* front of those added before it
AddMiddleware(stack, m) == << m >> \o stack

\* The add_middleware calls of create_app, in the order of the code
CreateAppMiddleware ==
    AddMiddleware(
        AddMiddleware(
            AddMiddleware(
                AddMiddleware(<< >>, "SecurityHeadersMiddleware"),
                "CORSMiddleware"),
            "RequestLoggingMiddleware"),
        "AuthenticationMiddleware")

\* A request to the layered server: the path and key headers; whether it is a CORS
\* preflight (OPTIONS with Origin and Access-Control-Request-Method); and what the
\* route handler does if it runs: returns, raises ValueError (a registered handler
\* answers 400) or raises an exception only the generic handler is registered for
ChainRequests ==
    [ server : {"layered"}, path : LayeredRoutes \cup { FAVICON },
      AcessKey : { None, Some(DEFAULT_API_KEY), Some(BAD_KEY) },
      Authorization : { None, Some(<<"Bearer ">> \o DEFAULT_API_KEY) },
      docsCredentials : {FALSE}, preflight : BOOLEAN,
      handler : {"returns", "ValueError", "KeyError"} ]

ChainResponse(status, origin, headers, exception) ==
    [ status |-> status, origin |-> origin, headers |-> headers,
      exception |-> exception ]

\* The router and the exception handlers registered for specific exception types;
\* an exception with only the generic handler propagates outwards
RouterResponse(r) ==
    IF r.path \notin LayeredRoutes THEN ChainResponse(404, "router", {}, "none")
    ELSE IF r.handler = "returns" THEN ChainResponse(200, "router", {}, "none")
    ELSE IF r.handler = "ValueError" THEN ChainResponse(400, "value_error_handler", {}, "none")
    ELSE ChainResponse(0, "router", {}, r.handler)

\* The request passes the middlewares of the stack from the first to the last and
\* the response comes back through them; a middleware that answers by itself
\* keeps the request from the ones after it
RECURSIVE Through(_, _)
Through(stack, r) ==
    IF stack = << >> THEN RouterResponse(r)
    ELSE LET m == Head(stack)
             inner == Through(Tail(stack), r)
         IN  IF m = "AuthenticationMiddleware"
               THEN LET d == LayeredDispatch(r, None, None) IN
                    IF d.branch = "rejected"
                      THEN ChainResponse(d.status, m, {}, "none")
                      ELSE inner
             ELSE IF m = "CORSMiddleware"
               THEN IF r.preflight THEN ChainResponse(200, m, {"Access-Control-Allow-Origin"}, "none")
                    ELSE IF inner.exception = "none"
                      THEN [inner EXCEPT !.headers = @ \cup {"Access-Control-Allow-Origin"}]
                    ELSE inner
             ELSE IF m = "SecurityHeadersMiddleware"
               THEN IF inner.exception = "none"
                      THEN [inner EXCEPT !.headers = @ \cup SECURITY_HEADERS]
                      ELSE inner
             ELSE inner

\* The whole application: an exception that left the middlewares is answered by
\* generic_exception_handler, outside all of them
AppResponse(stack, r) ==
    LET p == Through(stack, r) IN
    IF p.exception = "none" THEN p
    ELSE ChainResponse(500, "generic_exception_handler", {}, "none")

NoChainRequest ==
    [ server |-> "none", path |-> << >>, AcessKey |-> None, Authorization |-> None,
      docsCredentials |-> FALSE, preflight |-> FALSE, handler |-> "returns" ]
NoChainResponse == ChainResponse(0, "none", {}, "none")

ChainInit ==
    /\ user_middleware = CreateAppMiddleware
    /\ chainReq = NoChainRequest
    /\ chainResp = NoChainResponse

ChainIdle == ChainInit

ChainRequest(r) ==
    /\ chainReq = NoChainRequest
    /\ chainReq' = r
    /\ chainResp' = AppResponse(user_middleware, r)
    /\ UNCHANGED user_middleware
    /\ UNCHANGED notChain

ChainResponseSent ==
    /\ chainReq # NoChainRequest
    /\ chainReq' = NoChainRequest
    /\ chainResp' = NoChainResponse
    /\ UNCHANGED user_middleware
    /\ UNCHANGED notChain

ChainNext ==
    \/ \E r \in ChainRequests : ChainRequest(r)
    \/ ChainResponseSent

\* C15: every response of the layered server carries all the security headers,
\* those produced by a middleware itself included (the security-headers middleware
\* being the outermost of the chain).
C15_SecurityHeadersOnEveryResponse ==
    chainResp # NoChainResponse => SECURITY_HEADERS \subseteq chainResp.headers

(***************************************************************************)
(* Thread pools of the layered server: MT5ConnectionAdapter._executor and  *)
(* MT5TradingService._executor, each a ThreadPoolExecutor(max_workers=1)   *)
(***************************************************************************)
\* Open-position requests in flight at once
PoolRequests == 1..MaxRequests

\* The tasks that call the terminal: the lifespan's startup (task 0), and the
\* requests
StartupTask == 0
PoolTasks == {StartupTask} \cup PoolRequests

\* get_mt5_connection_service is cached (lru_cache): one MT5ConnectionAdapter and
\* one executor. get_trading_service is not: it returns a new MT5TradingService,
\* with an executor of its own, whenever a request resolves it; the executor of
\* the n-th service made is n
ConnectionExecutor == 0
TradingExecutorOf(made) == made + 1

\* A call is waiting in its executor's queue or running on its one thread
Waiting == {"initialize_wait", "login_wait", "symbol_info_wait", "order_send_wait"}
Running == {"initialize_run", "login_run", "symbol_info_run", "order_send_run"}
RunOf(pc) ==
    CASE pc = "initialize_wait" -> "initialize_run"
      [] pc = "login_wait" -> "login_run"
      [] pc = "symbol_info_wait" -> "symbol_info_run"
      [] pc = "order_send_wait" -> "order_send_run"

PoolInit ==
    /\ poolPc = [t \in PoolTasks |-> "idle"]
    /\ poolExecutor = [t \in PoolTasks |-> ConnectionExecutor]
    /\ poolMade = 0

PoolIdle == PoolInit

\* lifespan: `await connection_service.initialize_connection()`
StartupBegins ==
    /\ poolPc[StartupTask] = "idle"
    /\ poolPc' = [poolPc EXCEPT ![StartupTask] = "initialize_wait"]
    /\ UNCHANGED <<poolExecutor, poolMade>>
    /\ UNCHANGED notPool

\* A request for open-position is routed once the startup is over: its trading
\* service is made, and open_position submits mt5.symbol_info to its executor
RequestBegins(r) ==
    /\ poolPc[StartupTask] = "done"
    /\ poolPc[r] = "idle"
    /\ poolMade < MaxServices
    /\ poolMade' = poolMade + 1
    /\ poolExecutor' = [poolExecutor EXCEPT ![r] = TradingExecutorOf(poolMade)]
    /\ poolPc' = [poolPc EXCEPT ![r] = "symbol_info_wait"]
    /\ UNCHANGED notPool

\* The single thread of an executor takes a waiting call when it runs none
ExecutorStarts(t) ==
    /\ poolPc[t] \in Waiting
    /\ \A u \in PoolTasks : poolExecutor[u] = poolExecutor[t] => poolPc[u] \notin Running
    /\ poolPc' = [poolPc EXCEPT ![t] = RunOf(@)]
    /\ UNCHANGED <<poolExecutor, poolMade>>
    /\ UNCHANGED notPool

\* The call returns and the coroutine that awaited it goes on: after initialize
\* the login (or nothing, if it failed); after symbol_info the order_send (or
\* ValueError, if the symbol is unknown)
ExecutorFinishes(t, ok) ==
    /\ poolPc[t] \in Running
    /\ poolPc' = [poolPc EXCEPT ![t] =
                    IF @ = "initialize_run" /\ ok THEN "login_wait"
                    ELSE IF @ = "symbol_info_run" /\ ok THEN "order_send_wait"
                    ELSE "done"]
    /\ UNCHANGED <<poolExecutor, poolMade>>
    /\ UNCHANGED notPool

\* The response of a request has been sent; the next one may come
RequestEnds(r) ==
    /\ poolPc[r] = "done"
    /\ poolPc' = [poolPc EXCEPT ![r] = "idle"]
    /\ UNCHANGED <<poolExecutor, poolMade>>
    /\ UNCHANGED notPool

PoolNext ==
    \/ StartupBegins
    \/ \E r \in PoolRequests : RequestBegins(r)
    \/ \E t \in PoolTasks : ExecutorStarts(t)
    \/ \E t \in PoolTasks, ok \in BOOLEAN : ExecutorFinishes(t, ok)
    \/ \E r \in PoolRequests : RequestEnds(r)

\* C16: at most one terminal login or order_send call is executing at any instant,
\* whatever the number of concurrent requests.
C16_TerminalCallsSerialized ==
    Cardinality({ t \in PoolTasks : poolPc[t] \in {"login_run", "order_send_run"} }) <= 1

\* ---------------------------------------------------------------------------
\* Layered server: GetSymbolsPercentChangeUseCase.execute over a list of names
\* ---------------------------------------------------------------------------

\* Names a request can carry; the second needs strip() and upper()
BatchNames == {"EURUSD", " eurusd", "XAUUSD"}

\* symbol_name.strip().upper()
StripUpper(symbol_name) ==
    CASE symbol_name = "EURUSD"  -> "EURUSD"
      [] symbol_name = " eurusd" -> "EURUSD"
      [] symbol_name = "XAUUSD"  -> "XAUUSD"

BatchRequests == { s \in SeqsUpTo(BatchNames, MaxBatch) : TRUE }

\* get_all_symbols: it raises, or it returns the symbols of the terminal
BatchListings ==
    [ raised : {TRUE}, names : {{}} ]
      \cup [ raised : {FALSE}, names : SUBSET {"EURUSD", "XAUUSD"} ]

\* get_tickers_by_count for one symbol: it raises, or it returns the candles
BatchFetches ==
    [ fetch : {"raises"}, candles : {<< >>} ]
      \cup [ fetch : {"ok"}, candles : {<< >>, <<2, 3>>, <<0, 1>>} ]
NotFetched == [ fetch |-> "none", candles |-> << >> ]

\* The inner try of the loop body propagating the failure of the fetch
IterationUnguarded(symbol_name, symbol_dict, f) ==
    LET name == StripUpper(symbol_name)
        e == LayeredPctEntry(name \in symbol_dict, f.fetch, f.candles) IN
    [ raised |-> (name \in symbol_dict /\ f.fetch = "raises"),
      entry |-> [ symbol |-> name, pct_change |-> e.pct_change, error |-> e.error ] ]

\* One iteration of the loop: the entry appended for symbol_name; the inner
\* except turns every failure of the fetch into an error entry
Iteration(symbol_name, symbol_dict, f) ==
    LET name == StripUpper(symbol_name)
        e == LayeredPctEntry(name \in symbol_dict, f.fetch, f.candles) IN
    [ raised |-> FALSE,
      entry |-> [ symbol |-> name, pct_change |-> e.pct_change, error |-> e.error ] ]

NoListing == [ raised |-> FALSE, names |-> {} ]

BatchInit ==
    /\ batchPc = "idle"
    /\ batchSymbols = << >>
    /\ batchListing = NoListing
    /\ batchFetched = << >>
    /\ batchResults = << >>
    /\ batchRaised = None

BatchIdle == BatchInit

\* execute up to the loop: the checks of the list, then get_all_symbols
BatchExecute(symbols, listing) ==
    /\ batchPc = "idle"
    /\ batchSymbols' = symbols
    /\ batchFetched' = << >>
    /\ batchResults' = << >>
    /\ IF symbols = << >>
         THEN /\ batchPc' = "raised"
              /\ batchRaised' = Some("ValueError")
              /\ batchListing' = NoListing
         ELSE /\ batchListing' = listing
              /\ IF listing.raised
                   THEN batchPc' = "raised" /\ batchRaised' = Some("RuntimeError")
                   ELSE batchPc' = "loop" /\ batchRaised' = None
    /\ UNCHANGED notBatch

\* One iteration of the loop, and the return after the last one
BatchIterate(f) ==
    /\ batchPc = "loop"
    /\ LET symbol_name == batchSymbols[Len(batchResults) + 1]
           known == StripUpper(symbol_name) \in batchListing.names
           fetched == IF known THEN f ELSE NotFetched
           it == Iteration(symbol_name, batchListing.names, fetched) IN
       /\ (~known) => f = CHOOSE g \in BatchFetches : TRUE
       /\ batchFetched' = Append(batchFetched, fetched)
       /\ IF it.raised
            THEN /\ batchPc' = "raised"
                 /\ batchRaised' = Some("RuntimeError")
                 /\ batchResults' = batchResults
            ELSE /\ batchResults' = Append(batchResults, it.entry)
                 /\ batchRaised' = None
                 /\ batchPc' = IF Len(batchResults) + 1 = Len(batchSymbols)
                                 THEN "returned" ELSE "loop"
    /\ UNCHANGED <<batchSymbols, batchListing>>
    /\ UNCHANGED notBatch

BatchForget ==
    /\ batchPc \in {"returned", "raised"}
    /\ batchPc' = "idle"
    /\ batchSymbols' = << >>
    /\ batchListing' = NoListing
    /\ batchFetched' = << >>
    /\ batchResults' = << >>
    /\ batchRaised' = None
    /\ UNCHANGED notBatch

BatchNext ==
    \/ \E symbols \in BatchRequests, listing \in BatchListings :
         BatchExecute(symbols, listing)
    \/ \E f \in BatchFetches : BatchIterate(f)
    \/ BatchForget

TerminalCalls == {"true", "false", "raises"}
Startups ==
    [ available : BOOLEAN, credentials : BOOLEAN, initialize : TerminalCalls,
      login : TerminalCalls, account_info : TerminalCalls ]
NoStartup ==
    [ available |-> FALSE, credentials |-> FALSE, initialize |-> "false",
      login |-> "false", account_info |-> "false" ]

\* lifespan without its try/except: an exception of a terminal call leaves it
MonolithLifespanUncaught(s) ==
    IF ~s.available THEN [ aborted |-> FALSE, connected |-> FALSE ]
    ELSE IF s.initialize # "true"
      THEN [ aborted |-> s.initialize = "raises", connected |-> FALSE ]
    ELSE IF ~s.credentials THEN [ aborted |-> FALSE, connected |-> FALSE ]
    ELSE IF s.login # "true"
      THEN [ aborted |-> s.login = "raises", connected |-> FALSE ]
    ELSE [ aborted |-> s.account_info = "raises", connected |-> TRUE ]

\* lifespan up to its yield: whether startup was left by an exception, and the
\* value of mt5_connected. The flag is set right after login returned true, so
\* account_info raising afterwards leaves it set.
MonolithLifespan(s) ==
    IF ~s.available THEN [ aborted |-> FALSE, connected |-> FALSE ]
    ELSE IF s.initialize # "true" THEN [ aborted |-> FALSE, connected |-> FALSE ]
    ELSE IF ~s.credentials THEN [ aborted |-> FALSE, connected |-> FALSE ]
    ELSE IF s.login # "true" THEN [ aborted |-> FALSE, connected |-> FALSE ]
    ELSE [ aborted |-> FALSE, connected |-> TRUE ]

\* What the terminal does with a data call: it returns data, nothing, or raises
TerminalData == {"data", "nothing", "raises"}

\* get_symbols_data, get_tickers_data: where the returned list comes from
MonolithListSource(available, connected, t) ==
    IF ~available \/ ~connected THEN "simulated"
    ELSE IF t = "data" THEN "terminal"
    ELSE "empty"

\* get_symbol_info: the simulated symbol, the terminal's one, or None
MonolithSymbolInfoSource(available, connected, t) ==
    IF ~available \/ ~connected THEN "simulated"
    ELSE IF t = "data" THEN "terminal"
    ELSE "none"

MonoEndpoints ==
    {"GetSymbols", "GetSymbolInfo", "GetTickers", "GetTickersPos", "GetSymbolsPctChange"}
MonoSymbols == {"", "EURUSD"}
MonoRequests == [ endpoint : MonoEndpoints, symbol : MonoSymbols ]
NoMonoRequest == [ endpoint |-> "none", symbol |-> "" ]

MonoAnswer(ok, source, error) == [ OK |-> ok, source |-> source, Error |-> error ]
NoMonoAnswer == MonoAnswer(FALSE, "none", None)

\* The body of each data endpoint; source says where the data of the answer
\* came from ("none" when no data function was called)
get_symbols(available, connected, t) ==
    MonoAnswer(TRUE, MonolithListSource(available, connected, t), None)

get_symbol_info_endpoint(symbol, available, connected, t) ==
    IF symbol = "" THEN MonoAnswer(FALSE, "none", Some("Symbol name required"))
    ELSE LET src == MonolithSymbolInfoSource(available, connected, t) IN
         IF src # "none" THEN MonoAnswer(TRUE, src, None)
         ELSE MonoAnswer(FALSE, "none", Some("Symbol not found"))

get_tickers_endpoint(available, connected, t) ==
    MonoAnswer(TRUE, MonolithListSource(available, connected, t), None)

get_tickers_pos_endpoint(available, connected, t) ==
    MonoAnswer(TRUE, MonolithListSource(available, connected, t), None)

\* One requested symbol; the entry's error key stays absent in every case since
\* get_tickers_by_count never raises
get_symbols_pct_change(available, connected, t) ==
    LET fetch == IF t = "raises" THEN "raises" ELSE "ok"
        candles == IF t = "data" THEN <<2, 3>> ELSE << >>
        entry == MonolithPctEntry(available /\ connected, fetch, candles) IN
    MonoAnswer(entry.error = None, MonolithListSource(available, connected, t), entry.error)

MonoEndpointAnswer(r, available, connected, t) ==
    CASE r.endpoint = "GetSymbols" -> get_symbols(available, connected, t)
      [] r.endpoint = "GetSymbolInfo" ->
           get_symbol_info_endpoint(r.symbol, available, connected, t)
      [] r.endpoint = "GetTickers" -> get_tickers_endpoint(available, connected, t)
      [] r.endpoint = "GetTickersPos" -> get_tickers_pos_endpoint(available, connected, t)
      [] r.endpoint = "GetSymbolsPctChange" ->
           get_symbols_pct_change(available, connected, t)

MonoInit ==
    /\ monoPc = "down"
    /\ MT5_AVAILABLE = FALSE
    /\ mt5_connected = FALSE
    /\ monoStartup = NoStartup
    /\ monoReq = NoMonoRequest
    /\ monoAnswer = NoMonoAnswer
    /\ monoShutdowns = 0

MonoIdle == MonoInit

\* The import of the binding and lifespan up to its yield
MonoStartup(s) ==
    /\ monoPc = "down"
    /\ monoStartup' = s
    /\ MT5_AVAILABLE' = s.available
    /\ LET o == MonolithLifespan(s) IN
       /\ mt5_connected' = o.connected
       /\ monoPc' = IF o.aborted THEN "aborted" ELSE "up"
    /\ UNCHANGED <<monoReq, monoAnswer, monoShutdowns>>
    /\ UNCHANGED notMono

\* One request to a data endpoint of the running server
MonoServe(r, t) ==
    /\ monoPc = "up"
    /\ monoReq = NoMonoRequest
    /\ monoReq' = r
    /\ monoAnswer' = MonoEndpointAnswer(r, MT5_AVAILABLE, mt5_connected, t)
    /\ UNCHANGED <<monoPc, MT5_AVAILABLE, mt5_connected, monoStartup, monoShutdowns>>
    /\ UNCHANGED notMono

MonoAnswered ==
    /\ monoReq # NoMonoRequest
    /\ monoReq' = NoMonoRequest
    /\ monoAnswer' = NoMonoAnswer
    /\ UNCHANGED <<monoPc, MT5_AVAILABLE, mt5_connected, monoStartup, monoShutdowns>>
    /\ UNCHANGED notMono

\* lifespan after its yield: mt5.shutdown is called when the binding is present
\* and the flag is set
MonoShutdown ==
    /\ monoPc = "up"
    /\ monoReq = NoMonoRequest
    /\ monoPc' = "stopped"
    /\ monoShutdowns' = IF MT5_AVAILABLE /\ mt5_connected THEN 1 ELSE 0
    /\ UNCHANGED <<MT5_AVAILABLE, mt5_connected, monoStartup, monoReq, monoAnswer>>
    /\ UNCHANGED notMono

\* The process has ended; a later one starts afresh
MonoRestart ==
    /\ monoPc \in {"stopped", "aborted"}
    /\ monoPc' = "down"
    /\ MT5_AVAILABLE' = FALSE
    /\ mt5_connected' = FALSE
    /\ monoStartup' = NoStartup
    /\ monoShutdowns' = 0
    /\ UNCHANGED <<monoReq, monoAnswer>>
    /\ UNCHANGED notMono

MonoNext ==
    \/ \E s \in Startups : MonoStartup(s)
    \/ \E r \in MonoRequests, t \in TerminalData : MonoServe(r, t)
    \/ MonoAnswered
    \/ MonoShutdown
    \/ MonoRestart

MonoStartupHolds ==
    /\ monoPc # "aborted"
    /\ mt5_connected =>
         /\ monoStartup.available /\ monoStartup.credentials
         /\ monoStartup.initialize = "true" /\ monoStartup.login = "true"

\* C18 as stated: startup never aborts whatever the terminal steps do, the flag
\* is set only if initialize and login both succeeded, and while the flag is
\* unset every answer of a data endpoint is a success without terminal data.
C18_SimulatedForEveryRequest ==
    /\ MonoStartupHolds
    /\ (monoReq # NoMonoRequest /\ ~mt5_connected) =>
         (monoAnswer.OK /\ monoAnswer.source \in {"simulated", "none"})

\* C18, amended: as above, except that GetSymbolInfo answers an empty symbol
\* name with the error "Symbol name required", connected or not.
C18_SimulatedForNamedSymbols ==
    /\ MonoStartupHolds
    /\ (monoReq # NoMonoRequest /\ ~mt5_connected) =>
         IF monoReq.endpoint = "GetSymbolInfo" /\ monoReq.symbol = ""
           THEN monoAnswer = MonoAnswer(FALSE, "none", Some("Symbol name required"))
           ELSE monoAnswer.OK /\ monoAnswer.source = "simulated"

\* C28: at application shutdown the terminal is shut down exactly once when its
\* initialize succeeded at startup, whatever login did, and not at all when
\* initialize never succeeded.
C28_ShutdownIffInitialized ==
    monoPc = "stopped" =>
      monoShutdowns = IF monoStartup.available /\ monoStartup.initialize = "true"
                        THEN 1 ELSE 0

C18_Witness ==
    /\ monoPc = "up"
    /\ monoStartup.available
    /\ monoStartup.initialize = "true"
    /\ monoStartup.login = "raises"
    /\ ~mt5_connected
    /\ monoReq.endpoint = "GetSymbolInfo"
    /\ monoReq.symbol = "EURUSD"
    /\ monoAnswer.source = "simulated"

\* ---------------------------------------------------------------------------
\* Layered server: OpenPositionUseCase, ClosePositionUseCase and the
\* close-position endpoint
\* ---------------------------------------------------------------------------

\* What the terminal does with mt5.symbol_info and with mt5.order_send
SymbolInfoOutcomes == {"found", "none", "raises"}
OrderSendOutcomes == {"done", "rejected", "none", "PermissionError"}

TradingOutcome(exc, message, success) ==
    [ raised |-> exc, message |-> message, success |-> success ]
NoTradingOutcome == TradingOutcome("none", "", FALSE)

\* MT5TradingService.open_position: ValueError when the terminal does not know
\* the symbol; the terminal's verdict otherwise (a None result has no retcode)
ServiceOpenPosition(symbol_info, order_send) ==
    IF symbol_info = "raises" THEN TradingOutcome("Exception", "symbol_info failed", FALSE)
    ELSE IF symbol_info = "none" THEN TradingOutcome("ValueError", "Symbol not found", FALSE)
    ELSE IF order_send = "PermissionError"
      THEN TradingOutcome("PermissionError", "order_send denied", FALSE)
    ELSE IF order_send = "none"
      THEN TradingOutcome("AttributeError", "no attribute retcode", FALSE)
    ELSE TradingOutcome("none", "", order_send = "done")

\* The terminal's quotes of the symbol
Quotes == { q \in [ ask : 1..MaxPrice, bid : 1..MaxPrice ] : q.bid <= q.ask }

\* _prepare_mt5_trade_request: the "price" of the order; trade_request.price is
\* not read
PreparedPrice(t, q) == IF t.order_type = "BUY" THEN q.ask ELSE q.bid

\* The order handed to mt5.order_send, None when open_position is not reached
\* or leaves before it
OrderSent(t, symbol_info, q) ==
    IF Validate(t) = "" /\ symbol_info = "found" THEN Some(PreparedPrice(t, q))
    ELSE None

\* OpenPositionUseCase.execute: validate and the service share one try whose
\* except ValueError comes first
OpenPositionExecute(t, symbol_info, order_send) ==
    IF Validate(t) # ""
      THEN TradingOutcome("ValueError", "Invalid trade request", FALSE)
    ELSE LET r == ServiceOpenPosition(symbol_info, order_send) IN
         IF r.raised = "ValueError"
           THEN TradingOutcome("ValueError", "Invalid trade request", FALSE)
         ELSE IF r.raised # "none"
           THEN TradingOutcome("RuntimeError", "Failed to open position", FALSE)
         ELSE r

\* What an ITradingService may do with close_position. MT5TradingService
\* raises NotImplementedError for every ticket; the others are the outcomes the
\* endpoint has handlers for.
CloseOutcomes == {"NotImplementedError", "FileNotFoundError", "ValueError", "closed"}
Tickets == 0..MaxTicket
CloseRequests == [ ticket : Tickets, volume : Optional({0, 1}) ]

\* ClosePositionUseCase.execute
ClosePositionExecute(c, service) ==
    IF c.ticket <= 0 THEN TradingOutcome("ValueError", "Ticket must be positive", FALSE)
    ELSE IF c.volume # None /\ c.volume[1] <= 0
      THEN TradingOutcome("ValueError", "Volume must be positive if specified", FALSE)
    ELSE IF service = "closed" THEN TradingOutcome("none", "", TRUE)
    ELSE TradingOutcome("RuntimeError", "Failed to close position", FALSE)

\* The close_position endpoint: the status of the HTTPException it raises
ClosePositionStatus(c, service) ==
    LET r == ClosePositionExecute(c, service) IN
    IF r.raised = "none" THEN 200
    ELSE IF r.raised = "ValueError" THEN 400
    ELSE IF r.raised = "FileNotFoundError" THEN 404
    ELSE 500

NoTradingCall ==
    [ op |-> "none", trade |-> NoTradeRequest, symbol_info |-> "none",
      order_send |-> "none", quote |-> [ ask |-> 1, bid |-> 1 ],
      close |-> [ ticket |-> 0, volume |-> None ], service |-> "closed" ]

TradingInit ==
    /\ tradingCall = NoTradingCall
    /\ tradingOut = NoTradingOutcome
    /\ tradingStatus = 0
    /\ tradingOrder = None

TradingIdle == TradingInit

\* OpenPositionUseCase.execute(trade_request)
OpenPosition(t, symbol_info, order_send, q) ==
    /\ tradingCall = NoTradingCall
    /\ tradingCall' = [ NoTradingCall EXCEPT !.op = "open", !.trade = t,
                          !.symbol_info = symbol_info, !.order_send = order_send,
                          !.quote = q ]
    /\ tradingOut' = OpenPositionExecute(t, symbol_info, order_send)
    /\ tradingStatus' = 0
    /\ tradingOrder' = OrderSent(t, symbol_info, q)
    /\ UNCHANGED notTrading

\* POST /api/v1/trading/close-position
ClosePosition(c, service) ==
    /\ tradingCall = NoTradingCall
    /\ tradingCall' = [ NoTradingCall EXCEPT !.op = "close", !.close = c,
                          !.service = service ]
    /\ tradingOut' = ClosePositionExecute(c, service)
    /\ tradingStatus' = ClosePositionStatus(c, service)
    /\ tradingOrder' = None
    /\ UNCHANGED notTrading

TradingForget ==
    /\ tradingCall # NoTradingCall
    /\ tradingCall' = NoTradingCall
    /\ tradingOut' = NoTradingOutcome
    /\ tradingStatus' = 0
    /\ tradingOrder' = None
    /\ UNCHANGED notTrading

\* Any open-position call, any close-position request, once the last is over
OpenPositionCalled ==
    /\ tradingCall = NoTradingCall
    /\ \E t \in TradeRequests, si \in SymbolInfoOutcomes, os \in OrderSendOutcomes,
          q \in Quotes :
         OpenPosition(t, si, os, q)

ClosePositionCalled ==
    /\ tradingCall = NoTradingCall
    /\ \E c \in CloseRequests, service \in CloseOutcomes : ClosePosition(c, service)

TradingNext ==
    \/ OpenPositionCalled
    \/ ClosePositionCalled
    \/ TradingForget

CloseInputInvalid ==
    \/ tradingCall.close.ticket <= 0
    \/ tradingCall.close.volume # None /\ tradingCall.close.volume[1] <= 0

\* C19: the close-position endpoint answers 404 when the trading service reports
\* a missing position, 400 for invalid input, and 500 only for other failures.
C19_CloseNotFoundIs404 ==
    tradingCall.op = "close" =>
      /\ CloseInputInvalid => tradingStatus = 400
      /\ (~CloseInputInvalid /\ tradingCall.service = "FileNotFoundError") =>
           tradingStatus = 404
      /\ tradingStatus = 500 =>
           (~CloseInputInvalid /\ tradingCall.service # "FileNotFoundError")

\* C25: the price of the order sent to the terminal is the request's price when
\* the request carries one, and the market price (ask for BUY, bid for SELL)
\* only when it carries none.
C25_OrderPriceFromRequest ==
    (tradingCall.op = "open" /\ tradingOrder # None) =>
      tradingOrder[1] =
        IF tradingCall.trade.price # None THEN tradingCall.trade.price[1]
        ELSE IF tradingCall.trade.order_type = "BUY" THEN tradingCall.quote.ask
        ELSE tradingCall.quote.bid

\* C20: execute raises the validation failure (ValueError) exactly when
\* TradeRequest.validate rejected the request; a failure of the trading service
\* after validation passed is an execution failure (RuntimeError).
C20_ValidationIffValidateRejects ==
    tradingCall.op = "open" =>
      (tradingOut.raised = "ValueError" <=> Validate(tradingCall.trade) # "")

\* ---------------------------------------------------------------------------
\* Layered server: the market-data controller routes and the exception
\* handlers that shape their error responses
\* ---------------------------------------------------------------------------

CtlRoutes == {"symbol-info", "tickers", "tickers-by-count"}
\* The symbol as the use case receives it; " " is blank after strip()
CtlActives == {"", " ", "EURUSD"}
CtlRequests ==
    [ route : CtlRoutes, active : CtlActives,
      dates : {"before", "equal", "after"},   \* date_from against date_to
      position : {0, 1},
      repository : {"ok", "raises"} ]
NoCtlRequest ==
    [ route |-> "none", active |-> "", dates |-> "before", position |-> 0,
      repository |-> "ok" ]

\* not symbol or not symbol.strip()
BlankSymbol(symbol) == symbol \in {"", " "}

\* GetSymbolInfoUseCase / GetTickersUseCase / GetTickersByCountUseCase .execute:
\* the exception raised, "none" if it returns
UseCaseRaises(r) ==
    IF BlankSymbol(r.active) THEN "ValueError"
    ELSE IF r.route = "tickers" /\ r.dates # "before" THEN "ValueError"
    ELSE IF r.route = "tickers-by-count" /\ r.position <= 0 THEN "ValueError"
    ELSE IF r.repository = "raises" THEN "RuntimeError"
    ELSE "none"

\* The try/except of a route: what leaves the route function. Every route
\* turns ValueError into HTTPException(400) and the rest into HTTPException(500).
RouteRaises(r) ==
    LET e == UseCaseRaises(r) IN
    IF e = "none" THEN [ exception |-> "none", status_code |-> 200 ]
    ELSE IF e = "ValueError" THEN [ exception |-> "HTTPException", status_code |-> 400 ]
    ELSE [ exception |-> "HTTPException", status_code |-> 500 ]

\* f"HTTP_{exc.status_code}"
HttpErrorCode(status_code) ==
    CASE status_code = 400 -> "HTTP_400"
      [] status_code = 500 -> "HTTP_500"

CtlResponse(status, error_code) == [ status |-> status, error_code |-> error_code ]
NoCtlResponse == CtlResponse(0, "")

http_exception_handler(status_code) == CtlResponse(status_code, HttpErrorCode(status_code))
value_error_handler == CtlResponse(400, "VALUE_ERROR")

\* The handler registered for the exception that left the route
CtlRespond(r) ==
    LET o == RouteRaises(r) IN
    IF o.exception = "none" THEN CtlResponse(200, "")
    ELSE IF o.exception = "HTTPException" THEN http_exception_handler(o.status_code)
    ELSE value_error_handler

CtlInit ==
    /\ ctlReq = NoCtlRequest
    /\ ctlResp = NoCtlResponse

CtlIdle == CtlInit

CtlServe(r) ==
    /\ ctlReq = NoCtlRequest
    /\ ctlReq' = r
    /\ ctlResp' = CtlRespond(r)
    /\ UNCHANGED notCtl

CtlSent ==
    /\ ctlReq # NoCtlRequest
    /\ ctlReq' = NoCtlRequest
    /\ ctlResp' = NoCtlResponse
    /\ UNCHANGED notCtl

CtlNext ==
    \/ \E r \in CtlRequests : CtlServe(r)
    \/ CtlSent

\* C21: when the use case serving a controller route raises an invalid-input
\* failure (ValueError), the response has status 400 and error code VALUE_ERROR.
C21_InvalidInputIsValueError ==
    (ctlReq # NoCtlRequest /\ UseCaseRaises(ctlReq) = "ValueError") =>
      (ctlResp.status = 400 /\ ctlResp.error_code = "VALUE_ERROR")

\* ---------------------------------------------------------------------------
\* Client: SearchSymbolsUseCase over SymbolRepositoryAdapter.search_symbols
\* ---------------------------------------------------------------------------

\* Strings are sequences of characters here, so that upper() and `in` are
\* computed rather than assumed
UpperChar(c) ==
    CASE c = "e" -> "E"
      [] c = "u" -> "U"
      [] c = "x" -> "X"
      [] OTHER -> c
StrUpper(s) == [ i \in 1..Len(s) |-> UpperChar(s[i]) ]

\* p in s
StrContains(p, s) ==
    \E k \in 0..(Len(s) - Len(p)) : SubSeq(s, k + 1, k + Len(p)) = p

\* The symbols the server may list, by name and description
SearchCatalogue ==
    { [ name |-> <<"E", "U">>, description |-> <<"e", "x">> ],
      [ name |-> <<"U", "X">>, description |-> <<"u">> ],
      [ name |-> <<"x", "e">>, description |-> << >> ] }
SearchPatterns == { << >>, <<"e">>, <<"U", "X">>, <<"x", "u">> }
SearchListings == SeqsUpTo(SearchCatalogue, MaxListed)
SearchRequests == [ pattern : SearchPatterns, limit : Optional(0..MaxLimit) ]

\* The condition of the comprehension in search_symbols
SearchMatches(pattern, symbol) ==
    LET pattern_upper == StrUpper(pattern) IN
    \/ StrContains(pattern_upper, StrUpper(symbol.name))
    \/ StrContains(pattern_upper, StrUpper(symbol.description))

\* SymbolRepositoryAdapter.search_symbols
search_symbols(pattern, all_symbols) ==
    SelectSeq(all_symbols, LAMBDA symbol : SearchMatches(pattern, symbol))

\* result[:n] for n >= 0
Truncated(items, n) == SubSeq(items, 1, Min(n, Len(items)))

\* SearchSymbolsUseCase.execute; `if request.limit` is false for None and for 0
SearchSymbolsExecute(request, all_symbols) ==
    LET found == search_symbols(request.pattern, all_symbols) IN
    IF request.limit # None /\ request.limit[1] # 0
      THEN Truncated(found, request.limit[1])
      ELSE found

NoSearchRequest == [ pattern |-> << >>, limit |-> None ]

SearchInit ==
    /\ searchPc = "idle"
    /\ searchReq = NoSearchRequest
    /\ searchListed = << >>
    /\ searchOut = << >>

SearchIdle == SearchInit

\* MT5TradingClient.search_symbols(pattern, limit)
SearchSymbols(request, all_symbols) ==
    /\ searchPc = "idle"
    /\ searchPc' = "returned"
    /\ searchReq' = request
    /\ searchListed' = all_symbols
    /\ searchOut' = SearchSymbolsExecute(request, all_symbols)
    /\ UNCHANGED notSearch

SearchForget ==
    /\ searchPc = "returned"
    /\ searchPc' = "idle"
    /\ searchReq' = NoSearchRequest
    /\ searchListed' = << >>
    /\ searchOut' = << >>
    /\ UNCHANGED notSearch

SearchNext ==
    \/ \E request \in SearchRequests, all_symbols \in SearchListings :
         SearchSymbols(request, all_symbols)
    \/ SearchForget

\* C22: the search returns only symbols whose name or description contains the
\* pattern without regard to case and, when a limit >= 0 is given (0 included),
\* exactly the first `limit` matches in repository order.
C22_SearchTruncatedToLimit ==
    searchPc = "returned" =>
      /\ \A i \in 1..Len(searchOut) : SearchMatches(searchReq.pattern, searchOut[i])
      /\ searchReq.limit # None =>
           /\ Len(searchOut) <= searchReq.limit[1]
           /\ searchOut = Truncated(search_symbols(searchReq.pattern, searchListed),
                                    searchReq.limit[1])

\* ---------------------------------------------------------------------------
\* Client: the MT5TradingClient facade, its repository and its use-case cache
\* ---------------------------------------------------------------------------

\* The keys of _use_cases after _initialize
TenUseCases ==
    { "get_symbols", "get_symbol_info", "search_symbols", "get_tickers",
      "get_tickers_pos", "get_symbols_pct_change", "get_market_data",
      "get_multiple_market_data", "check_health", "market_analysis" }

\* The public calls, by the key each looks up in _use_cases
PublicCalls == TenUseCases

FacadeRepoIds == 1..MaxFacadeRepos

\* _initialize building a repository on every call
NeedsInitializeAlways(repository) == TRUE

\* _initialize: `if self._repository is None`
NeedsInitialize(repository) == repository = None

\* _initialize, given whether MT5Repository.__aenter__ raises: the repository
\* is assigned before it is opened, the use cases after
Initialized(repository, use_cases, live, made, opens) ==
    IF ~NeedsInitialize(repository)
      THEN [ repository |-> repository, use_cases |-> use_cases, live |-> live,
             made |-> made, raised |-> "none" ]
    ELSE IF ~opens
      THEN [ repository |-> Some(made + 1), use_cases |-> use_cases, live |-> live,
             made |-> made + 1, raised |-> "Exception" ]
    ELSE [ repository |-> Some(made + 1), use_cases |-> TenUseCases,
           live |-> live \cup { made + 1 }, made |-> made + 1, raised |-> "none" ]

FacadeOp(op, uninitialized, exc) ==
    [ op |-> op, uninitialized |-> uninitialized, raised |-> exc ]

FacadeInit ==
    /\ facRepository = None
    /\ facUseCases = {}
    /\ facLive = {}
    /\ facMade = 0
    /\ facLast = FacadeOp("none", FALSE, "none")

FacadeIdle == FacadeInit

\* async with client: __aenter__
FacadeEnter(opens) ==
    /\ NeedsInitialize(facRepository) => facMade < MaxFacadeRepos
    /\ LET i == Initialized(facRepository, facUseCases, facLive, facMade, opens) IN
       /\ facRepository' = i.repository
       /\ facUseCases' = i.use_cases
       /\ facLive' = i.live
       /\ facMade' = i.made
       /\ facLast' = FacadeOp("enter", facRepository = None, i.raised)
    /\ UNCHANGED notFacade

\* A public call (check_health, get_symbols, ...): _initialize, then the lookup
\* in _use_cases
FacadeCall(name, opens) ==
    /\ NeedsInitialize(facRepository) => facMade < MaxFacadeRepos
    /\ LET i == Initialized(facRepository, facUseCases, facLive, facMade, opens) IN
       /\ facRepository' = i.repository
       /\ facUseCases' = i.use_cases
       /\ facLive' = i.live
       /\ facMade' = i.made
       /\ facLast' = FacadeOp(name, facRepository = None,
                              IF i.raised # "none" THEN i.raised
                              ELSE IF name \notin i.use_cases THEN "KeyError"
                              ELSE "none")
    /\ UNCHANGED notFacade

\* close, also __aexit__
FacadeClose ==
    /\ facLive' = IF facRepository # None THEN facLive \ { facRepository[1] } ELSE facLive
    /\ facRepository' = None
    /\ facUseCases' = {}
    /\ facLast' = FacadeOp("close", facRepository = None, "none")
    /\ UNCHANGED facMade
    /\ UNCHANGED notFacade

FacadeNext ==
    \/ \E opens \in BOOLEAN : FacadeEnter(opens)
    \/ \E name \in PublicCalls, opens \in BOOLEAN : FacadeCall(name, opens)
    \/ FacadeClose

\* C23: a call or scoped acquisition on an uninitialized facade whose
\* initialization succeeds leaves the repository and all ten use cases built and
\* finds its use case; after close the repository is absent and the cache empty;
\* a close right after a close changes nothing; never two live repositories.
C23_FacadeLifecycle ==
    /\ []((facLast.op \in PublicCalls \cup {"enter"} /\ facLast.uninitialized
             /\ facLast.raised # "Exception") =>
            (facRepository # None /\ facUseCases = TenUseCases
             /\ facLast.raised = "none"))
    /\ [](facLast.op = "close" => (facRepository = None /\ facUseCases = {}))
    /\ [][(facLast.op = "close" /\ facLast'.op = "close") =>
            (facRepository' = facRepository /\ facUseCases' = facUseCases
             /\ facLive' = facLive)]_vars
    /\ [](Cardinality(facLive) <= 1)

C23_Witness ==
    /\ facLast.op = "check_health"
    /\ facLast.uninitialized
    /\ facLast.raised = "none"
    /\ facMade >= 2
    /\ facLive = { facMade }
    /\ facUseCases = TenUseCases

\* C27: between public calls the repository is present exactly when the ten
\* use cases are, so that no call fails on a missing use case.
C27_RepositoryIffUseCases ==
    /\ (facRepository # None) <=> (facUseCases = TenUseCases)
    /\ facLast.raised # "KeyError"

\* ---------------------------------------------------------------------------
\* Layered server: MT5ConnectionAdapter
\* ---------------------------------------------------------------------------

\* mt5.terminal_info(): a value, None, or an exception
ProbeOutcomes == {"info", "none", "raises"}

\* initialize_connection: the flag it leaves and what the caller gets; an
\* exception of mt5.initialize leaves the flag as it was
InitializeConnection(flag, initialize) ==
    IF initialize = "raises" THEN [ flag |-> flag, returned |-> "raises" ]
    ELSE [ flag |-> initialize = "true", returned |-> initialize ]

\* login: it initializes first when the flag is unset, discards what that
\* returned, and calls mt5.login in every case short of an exception
AdapterLogin(flag, initialize, terminal_login) ==
    LET i == IF ~flag THEN InitializeConnection(flag, initialize)
             ELSE [ flag |-> flag, returned |-> "skipped" ] IN
    IF i.returned = "raises"
      THEN [ flag |-> i.flag, initialized |-> i.returned, attempted |-> FALSE,
             returned |-> "raises" ]
      ELSE [ flag |-> i.flag, initialized |-> i.returned, attempted |-> TRUE,
             returned |-> terminal_login ]

\* shutdown_connection: the flag is cleared after mt5.shutdown returned
ShutdownConnection(flag, shutdown_raises) ==
    IF shutdown_raises THEN [ flag |-> flag, returned |-> "raises" ]
    ELSE [ flag |-> FALSE, returned |-> "none" ]

\* is_connected: the probe is evaluated only when the flag is set
IsConnected(flag, probe) ==
    IF ~flag THEN "false"
    ELSE IF probe = "raises" THEN "raises"
    ELSE IF probe = "info" THEN "true" ELSE "false"

ConnOp(op, initialized, attempted, probe, returned) ==
    [ op |-> op, initialized |-> initialized, attempted |-> attempted,
      probe |-> probe, returned |-> returned ]
NoConnOp == ConnOp("none", "skipped", FALSE, "none", "none")

\* The accounts a login may name, and the state of the terminal
Accounts == {1, 2}
Terminal(state, account) == [ state |-> state, account |-> account ]

ConnInit ==
    /\ _is_connected = FALSE
    /\ connRecentInit = "none"
    /\ connShutdownSince = FALSE
    /\ connLast = NoConnOp
    /\ connTerminal = Terminal("down", 0)

ConnIdle == ConnInit

ConnInitialize(initialize) ==
    /\ LET o == InitializeConnection(_is_connected, initialize) IN
       /\ _is_connected' = o.flag
       /\ connLast' = ConnOp("initialize_connection", initialize, FALSE, "none", o.returned)
    /\ connRecentInit' = initialize
    /\ connShutdownSince' = FALSE
    /\ connTerminal' = IF initialize = "true" THEN Terminal("initialized", 0)
                       ELSE connTerminal
    /\ UNCHANGED notConn

ConnLogin(account, initialize, terminal_login) ==
    /\ LET o == AdapterLogin(_is_connected, initialize, terminal_login) IN
       /\ _is_connected' = o.flag
       /\ connLast' = ConnOp(IF _is_connected THEN "login" ELSE "login_unconnected",
                             o.initialized, o.attempted, "none", o.returned)
       /\ connRecentInit' = IF o.initialized = "skipped" THEN connRecentInit
                            ELSE o.initialized
       /\ connShutdownSince' = IF o.initialized = "skipped" THEN connShutdownSince
                               ELSE FALSE
       /\ connTerminal' = IF o.attempted /\ terminal_login = "true"
                            THEN Terminal("logged_in", account)
                          ELSE IF o.initialized = "true" THEN Terminal("initialized", 0)
                          ELSE connTerminal
    /\ UNCHANGED notConn

ConnShutdown(shutdown_raises) ==
    /\ LET o == ShutdownConnection(_is_connected, shutdown_raises) IN
       /\ _is_connected' = o.flag
       /\ connLast' = ConnOp("shutdown_connection", "skipped", FALSE, "none", o.returned)
    /\ connShutdownSince' = (connShutdownSince \/ ~shutdown_raises)
    /\ connTerminal' = IF shutdown_raises THEN connTerminal ELSE Terminal("down", 0)
    /\ UNCHANGED connRecentInit
    /\ UNCHANGED notConn

ConnIsConnected(probe) ==
    /\ connLast' = ConnOp("is_connected", "skipped", FALSE, probe,
                          IsConnected(_is_connected, probe))
    /\ UNCHANGED <<_is_connected, connRecentInit, connShutdownSince, connTerminal>>
    /\ UNCHANGED notConn

ConnNext ==
    \/ \E initialize \in TerminalCalls : ConnInitialize(initialize)
    \/ \E account \in Accounts, initialize \in TerminalCalls,
          terminal_login \in TerminalCalls :
         ConnLogin(account, initialize, terminal_login)
    \/ \E shutdown_raises \in BOOLEAN : ConnShutdown(shutdown_raises)
    \/ \E probe \in ProbeOutcomes : ConnIsConnected(probe)

\* C24: is_connected returns true exactly when the flag is set and the probe
\* answers; the flag is set exactly when the most recent initialize_connection
\* returned true and no shutdown completed since; login on an adapter whose
\* flag is unset initializes first and, when that fails, returns false without
\* calling the terminal's login.
C24_ConnectionFlagAndLogin ==
    /\ (connLast.op = "is_connected" /\ connLast.probe # "raises") =>
         (connLast.returned = "true" <=> (_is_connected /\ connLast.probe = "info"))
    /\ _is_connected <=> (connRecentInit = "true" /\ ~connShutdownSince)
    /\ (connLast.op = "login_unconnected" /\ connLast.initialized = "false") =>
         (connLast.returned = "false" /\ ~connLast.attempted)

\* ---------------------------------------------------------------------------
\* /health of the monolith against /health of the layered server
\* ---------------------------------------------------------------------------

\* The layered lifespan up to its yield: the adapter's flag. login runs only
\* when initialize_connection returned true, and does not touch the flag.
LayeredLifespan(s) ==
    LET i == InitializeConnection(FALSE, s.initialize) IN
    IF i.returned # "true" THEN i.flag
    ELSE AdapterLogin(i.flag, s.initialize, s.login).flag

\* server/app.py health: mt5_connection
MonolithHealth(connected) == IF connected THEN "connected" ELSE "disconnected"

\* server/src/main.py health_check: mt5_connection, absent when the probe raises
LayeredHealth(flag, probe) ==
    LET c == IsConnected(flag, probe) IN
    IF c = "raises" THEN "absent"
    ELSE IF c = "true" THEN "connected" ELSE "disconnected"

NoCmp == [ monolith |-> "none", layered |-> "none" ]

CmpInit ==
    /\ cmpStartup = NoStartup
    /\ cmpProbe = "none"
    /\ cmpHealth = NoCmp

CmpIdle == CmpInit

\* Both servers started against a terminal behaving as s, then /health asked of
\* both while the terminal's probe behaves as probe
CompareHealth(s, probe) ==
    /\ cmpHealth = NoCmp
    /\ cmpStartup' = s
    /\ cmpProbe' = probe
    /\ cmpHealth' = [ monolith |-> MonolithHealth(MonolithLifespan(s).connected),
                      layered |-> LayeredHealth(LayeredLifespan(s), probe) ]
    /\ UNCHANGED notCmp

CmpForget ==
    /\ cmpHealth # NoCmp
    /\ cmpStartup' = NoStartup
    /\ cmpProbe' = "none"
    /\ cmpHealth' = NoCmp
    /\ UNCHANGED notCmp

CmpNext ==
    \/ \E s \in Startups, probe \in ProbeOutcomes : CompareHealth(s, probe)
    \/ CmpForget

\* C30: with the binding present, credentials configured, and a terminal that
\* answers the probe after startup, both servers report the same mt5_connection;
\* in particular "disconnected" when initialize succeeded and login failed.
C30_SameHealthConnection ==
    (/\ cmpHealth # NoCmp
     /\ cmpStartup.available /\ cmpStartup.credentials
     /\ cmpStartup.initialize # "raises" /\ cmpStartup.login # "raises"
     /\ cmpProbe = "info") =>
      /\ cmpHealth.monolith = cmpHealth.layered
      /\ (cmpStartup.initialize = "true" /\ cmpStartup.login = "false") =>
           cmpHealth.layered = "disconnected"

(***************************************************************************)
(* HttpClient session under concurrent calls                               *)
(* (src/client/mt5_client/infrastructure/adapters/__init__.py).  The tasks *)
(* run on one asyncio loop, so a step is the code between two awaits:      *)
(* `await self._ensure_session()` never suspends (its body has no await)   *)
(* and forms one step with the request that follows it; the request, the   *)
(* sleep between attempts and `await self._session.close()` suspend.       *)
(***************************************************************************)
Callers == 1..MaxCallers

\* self._session is None or self._session.closed
SessionMissing(current, made) ==
    current = None \/ made[current[1]] = "closed"

\* _ensure_session: a new ClientSession replaces a missing or closed one
_ensure_session(current, made) ==
    IF SessionMissing(current, made)
      THEN [ current |-> Some(Len(made) + 1), made |-> Append(made, "open") ]
      ELSE [ current |-> current, made |-> made ]

\* self._session.post(...) / .get(...) on the attribute as it is now
SessionRequest(current, made) ==
    IF current = None THEN "AttributeError"
    ELSE IF made[current[1]] = "closed" THEN "RuntimeError"
    ELSE "none"

SessInit ==
    /\ _session = None
    /\ sessions = << >>
    /\ callPc = [ c \in Callers |-> "idle" ]
    /\ callAttempt = [ c \in Callers |-> 0 ]
    /\ closePc = "idle"
    /\ calledAfterClose = FALSE

SessIdle == SessInit

\* post/get up to the first suspension: _ensure_session, then the first attempt
CallBegins(c) ==
    /\ callPc[c] = "idle"
    /\ SessionMissing(_session, sessions) => Len(sessions) < MaxSessions
    /\ LET e == _ensure_session(_session, sessions) IN
       /\ _session' = e.current
       /\ sessions' = e.made
    /\ callPc' = [ callPc EXCEPT ![c] = "in_flight" ]
    /\ callAttempt' = [ callAttempt EXCEPT ![c] = 1 ]
    /\ calledAfterClose' = (calledAfterClose \/ closePc = "returned")
    /\ UNCHANGED closePc
    /\ UNCHANGED notSess

\* the response arrives and the call returns its JSON
CallReturns(c) ==
    /\ callPc[c] = "in_flight"
    /\ callPc' = [ callPc EXCEPT ![c] = "returned" ]
    /\ UNCHANGED <<_session, sessions, callAttempt, closePc, calledAfterClose>>
    /\ UNCHANGED notSess

\* TimeoutError or ClientError: re-raised on the last attempt, else sleep
CallFails(c) ==
    /\ callPc[c] = "in_flight"
    /\ callPc' = [ callPc EXCEPT ![c] =
                     IF callAttempt[c] = DefaultMaxRetries THEN "raised"
                     ELSE "sleeping" ]
    /\ UNCHANGED <<_session, sessions, callAttempt, closePc, calledAfterClose>>
    /\ UNCHANGED notSess

\* after the sleep the next attempt uses self._session without _ensure_session
CallRetries(c) ==
    /\ callPc[c] = "sleeping"
    /\ callPc' = [ callPc EXCEPT ![c] =
                     IF SessionRequest(_session, sessions) = "none"
                       THEN "in_flight" ELSE "raised" ]
    /\ callAttempt' = [ callAttempt EXCEPT ![c] = @ + 1 ]
    /\ UNCHANGED <<_session, sessions, closePc, calledAfterClose>>
    /\ UNCHANGED notSess

\* close() up to its await: the session is marked closed as its close() starts
CloseBegins ==
    /\ closePc = "idle"
    /\ IF ~SessionMissing(_session, sessions)
         THEN /\ sessions' = [ sessions EXCEPT ![_session[1]] = "closed" ]
              /\ closePc' = "closing"
         ELSE /\ sessions' = sessions
              /\ closePc' = "returned"
    /\ UNCHANGED <<_session, callPc, callAttempt, calledAfterClose>>
    /\ UNCHANGED notSess

\* close() after its await: self._session = None
CloseResumes ==
    /\ closePc = "closing"
    /\ closePc' = "returned"
    /\ _session' = None
    /\ UNCHANGED <<sessions, callPc, callAttempt, calledAfterClose>>
    /\ UNCHANGED notSess

SessNext ==
    \/ \E c \in Callers : CallBegins(c)
    \/ \E c \in Callers : CallReturns(c)
    \/ \E c \in Callers : CallFails(c)
    \/ \E c \in Callers : CallRetries(c)
    \/ CloseBegins
    \/ CloseResumes

\* close() has returned, no call is in flight and none started after it
SessQuiescent ==
    /\ closePc = "returned"
    /\ \A c \in Callers : callPc[c] \in {"idle", "returned", "raised"}
    /\ ~calledAfterClose

\* C26: once close() has returned and every in-flight call has finished, with
\* no call started afterwards, every session the client ever created is closed.
C26_NoSessionLeftOpen ==
    SessQuiescent => \A s \in 1..Len(sessions) : sessions[s] = "closed"

(***************************************************************************)
(* Specifications                                                          *)
(***************************************************************************)
InitHttp ==
    /\ HttpInit /\ AuthIdle /\ DomainIdle /\ AnalysisIdle /\ PctIdle
    /\ HealthIdle /\ RepoIdle /\ FetchIdle /\ ChainIdle /\ PoolIdle
    /\ BatchIdle /\ MonoIdle /\ TradingIdle /\ CtlIdle /\ SearchIdle
    /\ FacadeIdle /\ ConnIdle /\ CmpIdle /\ SessIdle
SpecHttp == InitHttp /\ [][HttpNext]_vars

InitAuth ==
    /\ HttpIdle /\ AuthInit /\ DomainIdle /\ AnalysisIdle /\ PctIdle
    /\ HealthIdle /\ RepoIdle /\ FetchIdle /\ ChainIdle /\ PoolIdle
    /\ BatchIdle /\ MonoIdle /\ TradingIdle /\ CtlIdle /\ SearchIdle
    /\ FacadeIdle /\ ConnIdle /\ CmpIdle /\ SessIdle
SpecAuth == InitAuth /\ [][AuthNext]_vars

InitDomain ==
    /\ HttpIdle /\ AuthIdle /\ DomainInit /\ AnalysisIdle /\ PctIdle
    /\ HealthIdle /\ RepoIdle /\ FetchIdle /\ ChainIdle /\ PoolIdle
    /\ BatchIdle /\ MonoIdle /\ TradingIdle /\ CtlIdle /\ SearchIdle
    /\ FacadeIdle /\ ConnIdle /\ CmpIdle /\ SessIdle
SpecDomain == InitDomain /\ [][DomainNext]_vars

InitAnalysis ==
    /\ HttpIdle /\ AuthIdle /\ DomainIdle /\ AnalysisInit /\ PctIdle
    /\ HealthIdle /\ RepoIdle /\ FetchIdle /\ ChainIdle /\ PoolIdle
    /\ BatchIdle /\ MonoIdle /\ TradingIdle /\ CtlIdle /\ SearchIdle
    /\ FacadeIdle /\ ConnIdle /\ CmpIdle /\ SessIdle
SpecAnalysis == InitAnalysis /\ [][AnalysisNext]_vars

InitPct ==
    /\ HttpIdle /\ AuthIdle /\ DomainIdle /\ AnalysisIdle /\ PctInit
    /\ HealthIdle /\ RepoIdle /\ FetchIdle /\ ChainIdle /\ PoolIdle
    /\ BatchIdle /\ MonoIdle /\ TradingIdle /\ CtlIdle /\ SearchIdle
    /\ FacadeIdle /\ ConnIdle /\ CmpIdle /\ SessIdle
SpecPct == InitPct /\ [][PctNext]_vars

InitHealth ==
    /\ HttpIdle /\ AuthIdle /\ DomainIdle /\ AnalysisIdle /\ PctIdle
    /\ HealthInit /\ RepoIdle /\ FetchIdle /\ ChainIdle /\ PoolIdle
    /\ BatchIdle /\ MonoIdle /\ TradingIdle /\ CtlIdle /\ SearchIdle
    /\ FacadeIdle /\ ConnIdle /\ CmpIdle /\ SessIdle
SpecHealth == InitHealth /\ [][HealthNext]_vars

InitRepo ==
    /\ HttpIdle /\ AuthIdle /\ DomainIdle /\ AnalysisIdle /\ PctIdle
    /\ HealthIdle /\ RepoInit /\ FetchIdle /\ ChainIdle /\ PoolIdle
    /\ BatchIdle /\ MonoIdle /\ TradingIdle /\ CtlIdle /\ SearchIdle
    /\ FacadeIdle /\ ConnIdle /\ CmpIdle /\ SessIdle
SpecRepo == InitRepo /\ [][RepoNext]_vars

InitFetch ==
    /\ HttpIdle /\ AuthIdle /\ DomainIdle /\ AnalysisIdle /\ PctIdle
    /\ HealthIdle /\ RepoIdle /\ FetchInit /\ ChainIdle /\ PoolIdle
    /\ BatchIdle /\ MonoIdle /\ TradingIdle /\ CtlIdle /\ SearchIdle
    /\ FacadeIdle /\ ConnIdle /\ CmpIdle /\ SessIdle
SpecFetch == InitFetch /\ [][FetchNext]_vars

InitChain ==
    /\ HttpIdle /\ AuthIdle /\ DomainIdle /\ AnalysisIdle /\ PctIdle
    /\ HealthIdle /\ RepoIdle /\ FetchIdle /\ ChainInit /\ PoolIdle
    /\ BatchIdle /\ MonoIdle /\ TradingIdle /\ CtlIdle /\ SearchIdle
    /\ FacadeIdle /\ ConnIdle /\ CmpIdle /\ SessIdle
SpecChain == InitChain /\ [][ChainNext]_vars

InitPool ==
    /\ HttpIdle /\ AuthIdle /\ DomainIdle /\ AnalysisIdle /\ PctIdle
    /\ HealthIdle /\ RepoIdle /\ FetchIdle /\ ChainIdle /\ PoolInit
    /\ BatchIdle /\ MonoIdle /\ TradingIdle /\ CtlIdle /\ SearchIdle
    /\ FacadeIdle /\ ConnIdle /\ CmpIdle /\ SessIdle
SpecPool == InitPool /\ [][PoolNext]_vars

InitBatch ==
    /\ HttpIdle /\ AuthIdle /\ DomainIdle /\ AnalysisIdle /\ PctIdle
    /\ HealthIdle /\ RepoIdle /\ FetchIdle /\ ChainIdle /\ PoolIdle
    /\ BatchInit /\ MonoIdle /\ TradingIdle /\ CtlIdle /\ SearchIdle
    /\ FacadeIdle /\ ConnIdle /\ CmpIdle /\ SessIdle
SpecBatch == InitBatch /\ [][BatchNext]_vars

InitMono ==
    /\ HttpIdle /\ AuthIdle /\ DomainIdle /\ AnalysisIdle /\ PctIdle
    /\ HealthIdle /\ RepoIdle /\ FetchIdle /\ ChainIdle /\ PoolIdle
    /\ BatchIdle /\ MonoInit /\ TradingIdle /\ CtlIdle /\ SearchIdle
    /\ FacadeIdle /\ ConnIdle /\ CmpIdle /\ SessIdle
SpecMono == InitMono /\ [][MonoNext]_vars

InitTrading ==
    /\ HttpIdle /\ AuthIdle /\ DomainIdle /\ AnalysisIdle /\ PctIdle
    /\ HealthIdle /\ RepoIdle /\ FetchIdle /\ ChainIdle /\ PoolIdle
    /\ BatchIdle /\ MonoIdle /\ TradingInit /\ CtlIdle /\ SearchIdle
    /\ FacadeIdle /\ ConnIdle /\ CmpIdle /\ SessIdle
SpecTrading == InitTrading /\ [][TradingNext]_vars

InitCtl ==
    /\ HttpIdle /\ AuthIdle /\ DomainIdle /\ AnalysisIdle /\ PctIdle
    /\ HealthIdle /\ RepoIdle /\ FetchIdle /\ ChainIdle /\ PoolIdle
    /\ BatchIdle /\ MonoIdle /\ TradingIdle /\ CtlInit /\ SearchIdle
    /\ FacadeIdle /\ ConnIdle /\ CmpIdle /\ SessIdle
SpecCtl == InitCtl /\ [][CtlNext]_vars

InitSearch ==
    /\ HttpIdle /\ AuthIdle /\ DomainIdle /\ AnalysisIdle /\ PctIdle
    /\ HealthIdle /\ RepoIdle /\ FetchIdle /\ ChainIdle /\ PoolIdle
    /\ BatchIdle /\ MonoIdle /\ TradingIdle /\ CtlIdle /\ SearchInit
    /\ FacadeIdle /\ ConnIdle /\ CmpIdle /\ SessIdle
SpecSearch == InitSearch /\ [][SearchNext]_vars

InitFacade ==
    /\ HttpIdle /\ AuthIdle /\ DomainIdle /\ AnalysisIdle /\ PctIdle
    /\ HealthIdle /\ RepoIdle /\ FetchIdle /\ ChainIdle /\ PoolIdle
    /\ BatchIdle /\ MonoIdle /\ TradingIdle /\ CtlIdle /\ SearchIdle
    /\ FacadeInit /\ ConnIdle /\ CmpIdle /\ SessIdle
SpecFacade == InitFacade /\ [][FacadeNext]_vars

InitConn ==
    /\ HttpIdle /\ AuthIdle /\ DomainIdle /\ AnalysisIdle /\ PctIdle
    /\ HealthIdle /\ RepoIdle /\ FetchIdle /\ ChainIdle /\ PoolIdle
    /\ BatchIdle /\ MonoIdle /\ TradingIdle /\ CtlIdle /\ SearchIdle
    /\ FacadeIdle /\ ConnInit /\ CmpIdle /\ SessIdle
SpecConn == InitConn /\ [][ConnNext]_vars

InitCmp ==
    /\ HttpIdle /\ AuthIdle /\ DomainIdle /\ AnalysisIdle /\ PctIdle
    /\ HealthIdle /\ RepoIdle /\ FetchIdle /\ ChainIdle /\ PoolIdle
    /\ BatchIdle /\ MonoIdle /\ TradingIdle /\ CtlIdle /\ SearchIdle
    /\ FacadeIdle /\ ConnIdle /\ CmpInit /\ SessIdle
SpecCmp == InitCmp /\ [][CmpNext]_vars

InitSess ==
    /\ HttpIdle /\ AuthIdle /\ DomainIdle /\ AnalysisIdle /\ PctIdle
    /\ HealthIdle /\ RepoIdle /\ FetchIdle /\ ChainIdle /\ PoolIdle
    /\ BatchIdle /\ MonoIdle /\ TradingIdle /\ CtlIdle /\ SearchIdle
    /\ FacadeIdle /\ ConnIdle /\ CmpIdle /\ SessInit
SpecSess == InitSess /\ [][SessNext]_vars

====
